---- MODULE Spec2Model ----
(***************************************************************************)
(* A model of the email-sequence core of Microsoft-Email-Automation:       *)
(*   - utils/rate_limiter.py   RateLimiter / AdaptiveRateLimiter           *)
(*   - db/models.py            the recipients and email_sequence tables    *)
(*   - scheduler/scheduler.py  SequenceScheduler (poll passes, follow-ups, *)
(*                             cancel, pause, resume, add recipient)       *)
(*   - replies/reply_tracker.py the reply loop's call of cancel            *)
(*                                                                         *)
(* Time is in whole seconds.  The asyncio program runs its coroutines on   *)
(* one event loop and its SQL statements on the aiosqlite connection       *)
(* thread; a coroutine gives up control only where it awaits a database    *)
(* statement (the HTTP send uses the blocking requests library, and the    *)
(* rate limiter's coroutines never suspend).  An action of the model is    *)
(* therefore one database statement, or one database statement together   *)
(* with the event-loop code that follows it up to the next statement.      *)
(***************************************************************************)
EXTENDS Integers, Sequences, FiniteSets, TLC

VARIABLES
    now,            \* datetime.now(), seconds since midnight of day 0
    config,         \* Config: the values read once at start-up
    recipients,     \* table recipients: row id -> [email, status]
    email_sequence, \* table email_sequence: a set of rows
    seq_next_id,    \* AUTOINCREMENT counter of email_sequence.id
    rate_limiter,   \* RateLimiter: minute_window, daily_count, daily_reset_time
    pass,           \* one record per running instance of process_due_emails
    reply,          \* the reply loop's call of cancel_future_emails
    admin,          \* the callers of add_recipient_to_sequence
    delivered,      \* history: the (recipient, step) pairs sent successfully
    rl_call,        \* limiter-only specification: the last call and its result
    reply_match,    \* matcher-only specification: the last message and its match
    retry,          \* limiter-only specification: a call of exponential_backoff_retry
    disk,           \* restart specification: rate_limiter_state.json and its writer
    app,            \* start-up specification: the environment and how far `run` got
    skipped         \* history: the first step skipped for a stopped recipient,
                    \* and whether it was sent afterwards

vars == <<now, config, recipients, email_sequence, seq_next_id, rate_limiter,
          pass, reply, admin, delivered, rl_call, reply_match, retry, disk, app, skipped>>

-----------------------------------------------------------------------------
(* Program constants *)

MinuteSeconds == 60
DaySeconds == 86400
InitialDelaySeconds == 30
MaxInstances == 3
\* sequence_config[SequenceStep.INITIAL]['delay_minutes']
InitialDelayMinutes == 1

(* Bounds of the model *)

\* instances of process_due_emails that overlap (the scheduler allows MaxInstances)
MaxOverlap == 2
MaxRecipients == 1
MaxSeqId == 6
MaxPerMinute == 1
MaxPerDay == 2
MaxDelayDays == 1
MaxDays == 1
MaxTicksPerDay == 1
\* the limiter on its own: the caps a configuration may set, the sends
\* recorded per day, and the instants at which the clock is read
MaxMinuteCap == 2
MaxDayCap == 2
MaxRecords == 3
MaxClockDays == 1
MaxClockTicks == 3
\* one instance of process_due_emails at a time, over a whole sequence
MaxSequenceDays == 2
MaxFollowUp2DelayDays == 2
\* concurrent callers of add_recipient_to_sequence, and the recipients they add
MaxCallers == 2
MaxAddedRecipients == 2

\* None / SQL NULL in a column or variable that otherwise holds a timestamp or an id
NULL == -1

\* the addresses callers ask to add: the first n of a list
EmailList == <<"a@x.com", "b@x.com", "c@x.com">>
first_emails(n) == {EmailList[i] : i \in 1 .. (IF n < Len(EmailList) THEN n ELSE Len(EmailList))}
Emails == first_emails(MaxRecipients)
Steps == {1, 2, 3}
Passes == 1 .. MaxOverlap
Callers == 1 .. MaxCallers
Statuses == {"pending", "active", "replied", "stopped"}
\* the clock is observed every TickSeconds, and at the same time of day later
TickSeconds == InitialDelaySeconds

-----------------------------------------------------------------------------
(* RateLimiter *)

\* current_time.replace(hour=0, minute=0, second=0, microsecond=0)
midnight(t) == (t \div DaySeconds) * DaySeconds

\* the popleft loop of _cleanup_old_entries
RECURSIVE popleft_old(_, _)
popleft_old(window, minute_ago) ==
    IF window # <<>> /\ Head(window) < minute_ago
    THEN popleft_old(Tail(window), minute_ago)
    ELSE window

\* a reset that leaves the boundary at the midnight just passed
cleanup_keeps_boundary(rl, current_time) ==
    LET window == popleft_old(rl.minute_window, current_time - MinuteSeconds)
    IN  IF current_time >= rl.daily_reset_time
        THEN [rl EXCEPT !.minute_window = window,
                        !.daily_count = 0,
                        !.daily_reset_time = midnight(current_time)]
        ELSE [rl EXCEPT !.minute_window = window]

\* _cleanup_old_entries: the eviction and the lazy daily reset
cleanup_old_entries(rl, current_time) ==
    LET window == popleft_old(rl.minute_window, current_time - MinuteSeconds)
    IN  IF current_time >= rl.daily_reset_time
        THEN [rl EXCEPT !.minute_window = window,
                        !.daily_count = 0,
                        !.daily_reset_time = midnight(current_time) + DaySeconds]
        ELSE [rl EXCEPT !.minute_window = window]

\* limit checks that allow one send more than the minute cap
within_limits_one_over(rl) ==
    /\ ~ (Len(rl.minute_window) > config.rate_limit_per_minute)
    /\ ~ (rl.daily_count >= config.rate_limit_per_day)

\* the two limit checks of can_send_email, on the cleaned-up state
within_limits(rl) ==
    /\ ~ (Len(rl.minute_window) >= config.rate_limit_per_minute)
    /\ ~ (rl.daily_count >= config.rate_limit_per_day)

\* can_send_email: the state it leaves and the value it returns
can_send_email(rl, current_time) ==
    LET cleaned == cleanup_old_entries(rl, current_time)
    IN  [limiter |-> cleaned, ok |-> within_limits(cleaned)]

record_email_sent(rl, current_time) ==
    [rl EXCEPT !.minute_window = Append(@, current_time),
               !.daily_count = @ + 1]

\* fractions: current_delay and its factors, kept exact and in lowest terms
RECURSIVE gcd(_, _)
gcd(a, b) == IF b = 0 THEN a ELSE gcd(b, a % b)

fraction(num, den) ==
    [num |-> num \div gcd(num, den), den |-> den \div gcd(num, den)]

times(p, q) == fraction(p.num * q.num, p.den * q.den)

less(p, q) == p.num * q.den < q.num * p.den

max_of(p, q) == IF less(p, q) THEN q ELSE p

\* a minimum that lets its second argument through
min_of_unbounded(p, q) == q

min_of(p, q) == IF less(q, p) THEN q ELSE p

\* AdaptiveRateLimiter.__init__: the settings
base_delay == fraction(1, 1)
min_delay == fraction(1, 2)
max_delay == fraction(30, 1)
backoff_multiplier == fraction(2, 1)
backoff_max_retries == 3
\* record_send_result: the factors and the streak lengths that trigger them
success_factor == fraction(9, 10)
failure_factor == fraction(3, 2)
SuccessStreak == 5
FailureStreak == 3

\* the error texts a failed send reports ('' when the result carries none)
ErrorCodes == {"", "timeout", "throttled", "Throttling"}

\* "throttl" in error_code.lower()
signals_throttling(error_code) == error_code \in {"throttled", "Throttling"}

\* a throttling failure that is treated as any other failure
adapt_throttling_as_failure(rl, success, error_code) ==
    IF success
    THEN IF rl.consecutive_successes + 1 >= SuccessStreak
         THEN [rl EXCEPT !.consecutive_successes = 0,
                         !.consecutive_failures = 0,
                         !.current_delay = max_of(min_delay, times(@, success_factor))]
         ELSE [rl EXCEPT !.consecutive_successes = @ + 1,
                         !.consecutive_failures = 0]
    ELSE IF rl.consecutive_failures + 1 >= FailureStreak
         THEN [rl EXCEPT !.consecutive_failures = @ + 1,
                         !.consecutive_successes = 0,
                         !.current_delay = min_of(max_delay, times(@, failure_factor))]
         ELSE [rl EXCEPT !.consecutive_failures = @ + 1,
                         !.consecutive_successes = 0]

\* a decay after four successes in a row
adapt_early_decay(rl, success, error_code) ==
    IF success
    THEN IF rl.consecutive_successes + 1 >= SuccessStreak - 1
         THEN [rl EXCEPT !.consecutive_successes = 0,
                         !.consecutive_failures = 0,
                         !.current_delay = max_of(min_delay, times(@, success_factor))]
         ELSE [rl EXCEPT !.consecutive_successes = @ + 1,
                         !.consecutive_failures = 0]
    ELSE IF error_code # "" /\ signals_throttling(error_code)
         THEN [rl EXCEPT !.consecutive_failures = @ + 1,
                         !.consecutive_successes = 0,
                         !.current_delay = min_of(max_delay, times(@, backoff_multiplier))]
         ELSE IF rl.consecutive_failures + 1 >= FailureStreak
         THEN [rl EXCEPT !.consecutive_failures = @ + 1,
                         !.consecutive_successes = 0,
                         !.current_delay = min_of(max_delay, times(@, failure_factor))]
         ELSE [rl EXCEPT !.consecutive_failures = @ + 1,
                         !.consecutive_successes = 0]

\* a backoff at the second failure in a row
adapt_second_failure_backs_off(rl, success, error_code) ==
    IF success
    THEN IF rl.consecutive_successes + 1 >= SuccessStreak
         THEN [rl EXCEPT !.consecutive_successes = 0,
                         !.consecutive_failures = 0,
                         !.current_delay = max_of(min_delay, times(@, success_factor))]
         ELSE [rl EXCEPT !.consecutive_successes = @ + 1,
                         !.consecutive_failures = 0]
    ELSE IF error_code # "" /\ signals_throttling(error_code)
         THEN [rl EXCEPT !.consecutive_failures = @ + 1,
                         !.consecutive_successes = 0,
                         !.current_delay = min_of(max_delay, times(@, backoff_multiplier))]
         ELSE IF rl.consecutive_failures + 1 >= FailureStreak - 1
         THEN [rl EXCEPT !.consecutive_failures = @ + 1,
                         !.consecutive_successes = 0,
                         !.current_delay = min_of(max_delay, times(@, failure_factor))]
         ELSE [rl EXCEPT !.consecutive_failures = @ + 1,
                         !.consecutive_successes = 0]

\* record_send_result after record_email_sent: the streaks and current_delay
adapt(rl, success, error_code) ==
    IF success
    THEN IF rl.consecutive_successes + 1 >= SuccessStreak
         THEN [rl EXCEPT !.consecutive_successes = 0,
                         !.consecutive_failures = 0,
                         !.current_delay = max_of(min_delay, times(@, success_factor))]
         ELSE [rl EXCEPT !.consecutive_successes = @ + 1,
                         !.consecutive_failures = 0]
    ELSE IF error_code # "" /\ signals_throttling(error_code)
         THEN [rl EXCEPT !.consecutive_failures = @ + 1,
                         !.consecutive_successes = 0,
                         !.current_delay = min_of(max_delay, times(@, backoff_multiplier))]
         ELSE IF rl.consecutive_failures + 1 >= FailureStreak
         THEN [rl EXCEPT !.consecutive_failures = @ + 1,
                         !.consecutive_successes = 0,
                         !.current_delay = min_of(max_delay, times(@, failure_factor))]
         ELSE [rl EXCEPT !.consecutive_failures = @ + 1,
                         !.consecutive_successes = 0]

\* a limiter that counts the emails delivered and lets a failure go uncounted
record_send_result_counts_successes(rl, current_time, success, error_code) ==
    adapt(IF success THEN record_email_sent(rl, current_time) ELSE rl,
          success, error_code)

\* AdaptiveRateLimiter.record_send_result
record_send_result(rl, current_time, success, error_code) ==
    adapt(record_email_sent(rl, current_time), success, error_code)

\* get_current_rate: the state it leaves and the fields of the status it returns
get_current_rate(rl, current_time) ==
    LET cleaned == cleanup_old_entries(rl, current_time)
    IN  [limiter |-> cleaned,
         can_send_now |->
             /\ Len(cleaned.minute_window) < config.rate_limit_per_minute
             /\ cleaned.daily_count < config.rate_limit_per_day,
         next_minute_slot |->
             IF Len(cleaned.minute_window) >= config.rate_limit_per_minute
             THEN Head(cleaned.minute_window) + MinuteSeconds
             ELSE NULL,
         next_day_slot |->
             IF cleaned.daily_count >= config.rate_limit_per_day
             THEN cleaned.daily_reset_time
             ELSE NULL]

\* AdaptiveRateLimiter.__init__ with no persistence file
new_rate_limiter(t) ==
    [minute_window |-> <<>>,
     daily_count |-> 0,
     daily_reset_time |-> midnight(t) + DaySeconds,
     consecutive_successes |-> 0,
     consecutive_failures |-> 0,
     current_delay |-> base_delay]

-----------------------------------------------------------------------------
(* db/models.py: the two tables.  An email_sequence row is                 *)
(* [id, recipient_id, step, scheduled_at, sent_at, message_id, replied].   *)

unsent_of(table, recipient_id) ==
    {row \in table : row.recipient_id = recipient_id /\ row.sent_at = NULL}

\* WHERE scheduled_at <= ? AND sent_at IS NULL AND replied = FALSE
due_rows(table, current_time) ==
    {row \in table : /\ row.scheduled_at <= current_time
                     /\ row.sent_at = NULL
                     /\ row.replied = FALSE}

\* a query without ORDER BY: the rows in rowid order
RECURSIVE order_by_rowid(_)
order_by_rowid(rows) ==
    IF rows = {} THEN <<>>
    ELSE LET first == CHOOSE r \in rows : \A o \in rows : r.id <= o.id
         IN  <<first>> \o order_by_rowid(rows \ {first})

\* ORDER BY scheduled_at (rows of equal scheduled_at in rowid order)
RECURSIVE order_by_scheduled_at(_)
order_by_scheduled_at(rows) ==
    IF rows = {} THEN <<>>
    ELSE LET first == CHOOSE r \in rows : \A o \in rows :
                          \/ r.scheduled_at < o.scheduled_at
                          \/ (r.scheduled_at = o.scheduled_at /\ r.id <= o.id)
         IN  <<first>> \o order_by_scheduled_at(rows \ {first})

\* EmailSequenceRepository.get_due_emails
get_due_emails(table, current_time) ==
    order_by_scheduled_at(due_rows(table, current_time))

\* EmailSequenceRepository.mark_sent: UPDATE ... WHERE id = ?
mark_sent(table, sequence_id, message_id, sent_at) ==
    {IF row.id = sequence_id
     THEN [row EXCEPT !.sent_at = sent_at, !.message_id = message_id]
     ELSE row : row \in table}

\* EmailSequenceRepository.cancel_future_emails:
\* DELETE ... WHERE recipient_id = ? AND sent_at IS NULL; returns the row count
cancel_future_emails(table, recipient_id) ==
    [table |-> table \ unsent_of(table, recipient_id),
     affected_rows |-> Cardinality(unsent_of(table, recipient_id))]

\* a table without UNIQUE(recipient_id, step)
unique_step_unconstrained(table, recipient_id, step) == TRUE

\* UNIQUE(recipient_id, step) of the schema
unique_step_free(table, recipient_id, step) ==
    ~ \E row \in table : row.recipient_id = recipient_id /\ row.step = step

\* EmailSequenceRepository.create: INSERT (recipient_id, step, scheduled_at)
create(table, id, recipient_id, step, scheduled_at) ==
    table \cup {[id |-> id, recipient_id |-> recipient_id, step |-> step,
                 scheduled_at |-> scheduled_at, sent_at |-> NULL,
                 message_id |-> NULL, replied |-> FALSE]}

\* RecipientRepository.update_status
update_status(table, recipient_id, status) ==
    [table EXCEPT ![recipient_id].status = status]

\* RecipientRepository.get_by_email
get_by_email(table, email) ==
    {id \in DOMAIN table : table[id].email = email}

-----------------------------------------------------------------------------
(* scheduler/scheduler.py: one pass of process_due_emails *)

\* no pass has skipped a step of a stopped recipient yet
NothingSkipped == [id |-> NULL, sent |-> FALSE]

IdlePass == [pc |-> "idle", due |-> <<>>, status |-> "none", sent_at |-> NULL]

\* what a pass keeps of the rows get_due_emails returned
snapshot(rows) ==
    [i \in DOMAIN rows |-> [id |-> rows[i].id,
                            recipient_id |-> rows[i].recipient_id,
                            step |-> rows[i].step]]

\* The for loop of process_due_emails from its next element on, up to the
\* first await that suspends: _process_single_email asks can_send_email; when
\* it allows, the pass goes on to read the recipient; when it denies, the step
\* is skipped, and so is every later one (nothing changes the limiter in between).
next_email(rest, rl) ==
    IF rest = <<>>
    THEN [pass |-> IdlePass, limiter |-> rl]
    ELSE LET gate == can_send_email(rl, now)
         IN  IF gate.ok
             THEN [pass |-> [IdlePass EXCEPT !.pc = "get_recipient", !.due = rest],
                   limiter |-> gate.limiter]
             ELSE [pass |-> IdlePass, limiter |-> gate.limiter]

\* a follow-up rule that forgets follow_up_2_enabled
next_follow_up_delay_always(current_step) ==
    LET next_step == current_step + 1
    IN  IF next_step = 2 THEN config.follow_up_1_delay_days
        ELSE IF next_step = 3 THEN config.follow_up_2_delay_days
             ELSE NULL

\* _schedule_next_follow_up: the delay of the step to create, or NULL for none
next_follow_up_delay(current_step) ==
    LET next_step == current_step + 1
    IN  IF next_step = 2 THEN config.follow_up_1_delay_days
        ELSE IF next_step = 3 /\ config.follow_up_2_enabled
             THEN config.follow_up_2_delay_days
             ELSE NULL

\* process_due_emails: the due-set query and the first rate gate
process_due_emails(w) ==
    /\ pass[w].pc = "idle"
    /\ LET due == get_due_emails(email_sequence, now)
           n == next_email(snapshot(due), rate_limiter)
       IN  /\ pass' = [pass EXCEPT ![w] = n.pass]
           /\ rate_limiter' = n.limiter
    /\ UNCHANGED <<now, config, recipients, email_sequence, seq_next_id, reply,
                   admin, delivered, rl_call, reply_match, retry, disk, app, skipped>>

\* _process_single_email: recipient_repo.get_by_id
get_recipient(w) ==
    /\ pass[w].pc = "get_recipient"
    /\ LET cur == Head(pass[w].due)
       IN  IF cur.recipient_id \in DOMAIN recipients
           THEN /\ pass' = [pass EXCEPT ![w].pc = "send_email",
                                        ![w].status = recipients[cur.recipient_id].status]
                /\ rate_limiter' = rate_limiter
           ELSE LET n == next_email(Tail(pass[w].due), rate_limiter)
                IN  /\ pass' = [pass EXCEPT ![w] = n.pass]
                    /\ rate_limiter' = n.limiter
    /\ UNCHANGED <<now, config, recipients, email_sequence, seq_next_id, reply,
                   admin, delivered, rl_call, reply_match, retry, disk, app, skipped>>

\* a status check that forgets replied
skips_status_only_stopped(status) == status \in {"stopped"}

\* _process_single_email: the status check on the recipient just read
skips_status(status) == status \in {"replied", "stopped"}

\* a skip that drops the step it skips
skip_email_deletes(w) ==
    /\ pass[w].pc = "send_email"
    /\ skips_status(pass[w].status)
    /\ LET n == next_email(Tail(pass[w].due), rate_limiter)
       IN  /\ pass' = [pass EXCEPT ![w] = n.pass]
           /\ rate_limiter' = n.limiter
    /\ email_sequence' = {row \in email_sequence : row.id # Head(pass[w].due).id}
    /\ UNCHANGED <<now, config, recipients, seq_next_id, reply,
                   admin, delivered, rl_call, reply_match, retry, disk, app, skipped>>

\* _process_single_email: the status check, and the skip
skip_email(w) ==
    /\ pass[w].pc = "send_email"
    /\ skips_status(pass[w].status)
    /\ LET n == next_email(Tail(pass[w].due), rate_limiter)
       IN  /\ pass' = [pass EXCEPT ![w] = n.pass]
           /\ rate_limiter' = n.limiter
    /\ skipped' = IF pass[w].status = "stopped" /\ skipped = NothingSkipped
                  THEN [id |-> Head(pass[w].due).id, sent |-> FALSE]
                  ELSE skipped
    /\ UNCHANGED <<now, config, recipients, email_sequence, seq_next_id, reply,
                   admin, delivered, rl_call, reply_match, retry, disk, app>>

\* EmailSender._extract_message_id returns a fresh uuid4: a pass sends a row
\* at most once, so the pair (pass, row id) names the message
message_id_of(w, sequence_id) == sequence_id * (MaxInstances + 1) + w

\* _process_single_email: email_sender.send_email succeeds
send_email_success(w) ==
    /\ pass[w].pc = "send_email"
    /\ ~ skips_status(pass[w].status)
    /\ LET cur == Head(pass[w].due)
       IN  /\ delivered' = delivered \cup {<<cur.recipient_id, cur.step>>}
           /\ pass' = [pass EXCEPT ![w].pc = "mark_sent", ![w].sent_at = now]
           /\ skipped' = IF cur.id = skipped.id
                         THEN [skipped EXCEPT !.sent = TRUE]
                         ELSE skipped
    /\ UNCHANGED <<now, config, recipients, email_sequence, seq_next_id,
                   rate_limiter, reply, admin, rl_call, reply_match, retry, disk, app>>

\* a failed send that ends the polling for good
send_email_failure_aborts(w) ==
    /\ pass[w].pc = "send_email"
    /\ ~ skips_status(pass[w].status)
    /\ \E error \in {"timeout", "throttled"} :
         /\ pass' = [pass EXCEPT ![w].pc = "aborted"]
         /\ rate_limiter' = record_send_result(rate_limiter, now, FALSE, error)
    /\ UNCHANGED <<now, config, recipients, email_sequence, seq_next_id, reply,
                   admin, delivered, rl_call, reply_match, retry, disk, app, skipped>>

\* _process_single_email: email_sender.send_email fails; the failure is recorded
send_email_failure(w) ==
    /\ pass[w].pc = "send_email"
    /\ ~ skips_status(pass[w].status)
    /\ \E error \in {"timeout", "throttled"} :
         LET n == next_email(Tail(pass[w].due),
                             record_send_result(rate_limiter, now, FALSE, error))
         IN  /\ pass' = [pass EXCEPT ![w] = n.pass]
             /\ rate_limiter' = n.limiter
    /\ UNCHANGED <<now, config, recipients, email_sequence, seq_next_id, reply,
                   admin, delivered, rl_call, reply_match, retry, disk, app, skipped>>

\* _process_single_email after a successful send: sequence_repo.mark_sent
\* with the message id and sent_at the sender returned
mark_sent_step(w) ==
    /\ pass[w].pc = "mark_sent"
    /\ LET cur == Head(pass[w].due)
       IN  email_sequence' = mark_sent(email_sequence, cur.id,
                                       message_id_of(w, cur.id), pass[w].sent_at)
    /\ pass' = [pass EXCEPT ![w].pc = "record_send_result"]
    /\ UNCHANGED <<now, config, recipients, seq_next_id, rate_limiter, reply,
                   admin, delivered, rl_call, reply_match, retry, disk, app, skipped>>

\* schedule_follow_up: sequence_repo.create of the next step at
\* now + delay_days (a duplicate (recipient_id, step) raises, which
\* schedule_follow_up catches); the table it leaves
schedule_follow_up(table, id, recipient_id, step, delay_days) ==
    IF unique_step_free(table, recipient_id, step)
    THEN create(table, id, recipient_id, step, now + delay_days * DaySeconds)
    ELSE table

\* _process_single_email after mark_sent: rate_limiter.record_send_result(True),
\* then _schedule_next_follow_up, then the loop goes on
record_and_schedule_next(w) ==
    /\ pass[w].pc = "record_send_result"
    /\ LET cur == Head(pass[w].due)
           rl == record_send_result(rate_limiter, now, TRUE, "")
           delay_days == next_follow_up_delay(cur.step)
           n == next_email(Tail(pass[w].due), rl)
           table == IF delay_days = NULL THEN email_sequence
                    ELSE schedule_follow_up(email_sequence, seq_next_id,
                             cur.recipient_id, cur.step + 1, delay_days)
       IN  /\ table # email_sequence => seq_next_id <= MaxSeqId
           /\ email_sequence' = table
           /\ seq_next_id' = IF table # email_sequence THEN seq_next_id + 1
                             ELSE seq_next_id
           /\ pass' = [pass EXCEPT ![w] = n.pass]
           /\ rate_limiter' = n.limiter
    /\ UNCHANGED <<now, config, recipients, reply, admin, delivered, rl_call, reply_match, retry, disk, app, skipped>>

-----------------------------------------------------------------------------
(* replies/reply_tracker.py: _handle_reply calls the scheduler's            *)
(* cancel_future_emails, which is two statements                            *)

IdleReply == [pc |-> "idle", recipient_id |-> 0, cancelled_count |-> 0]

\* cancel_future_emails: sequence_repo.cancel_future_emails (the DELETE)
cancel_delete(r) ==
    /\ reply.pc = "idle"
    /\ r \in DOMAIN recipients
    /\ LET res == cancel_future_emails(email_sequence, r)
       IN  /\ email_sequence' = res.table
           /\ reply' = [pc |-> "update_status", recipient_id |-> r,
                        cancelled_count |-> res.affected_rows]
    /\ UNCHANGED <<now, config, recipients, seq_next_id, rate_limiter, pass,
                   admin, delivered, rl_call, reply_match, retry, disk, app, skipped>>

\* cancel_future_emails: recipient_repo.update_status(recipient_id, 'replied'),
\* and the return of cancelled_count
cancel_update_status ==
    /\ reply.pc = "update_status"
    /\ recipients' = update_status(recipients, reply.recipient_id, "replied")
    /\ reply' = IdleReply
    /\ UNCHANGED <<now, config, email_sequence, seq_next_id, rate_limiter, pass,
                   admin, delivered, rl_call, reply_match, retry, disk, app, skipped>>

-----------------------------------------------------------------------------
(* scheduler/scheduler.py: pause, resume, add_recipient_to_sequence,        *)
(* schedule_initial_email                                                   *)

\* a caller of add_recipient_to_sequence: where it is, its arguments, and what
\* its last call returned ("none" while a call is running or before the first)
IdleAdmin == [pc |-> "idle", email |-> "", recipient_id |-> 0, returned |-> "none",
              base_time |-> NULL, steps |-> <<>>]

returns(value) == [IdleAdmin EXCEPT !.returned = value]

\* a pause that also deletes the recipient's unsent steps
pause_recipient_sequence_cancels(r) ==
    /\ r \in DOMAIN recipients
    /\ recipients' = update_status(recipients, r, "stopped")
    /\ email_sequence' = {row \in email_sequence :
                              row.recipient_id # r \/ row.sent_at # NULL}
    /\ UNCHANGED <<now, config, seq_next_id, rate_limiter, pass,
                   reply, admin, delivered, rl_call, reply_match, retry, disk, app, skipped>>

\* pause_recipient_sequence, and SequenceManager.pause_sequence: one UPDATE
pause_recipient_sequence(r) ==
    /\ r \in DOMAIN recipients
    /\ recipients' = update_status(recipients, r, "stopped")
    /\ UNCHANGED <<now, config, email_sequence, seq_next_id, rate_limiter, pass,
                   reply, admin, delivered, rl_call, reply_match, retry, disk, app, skipped>>

\* the status resume_recipient_sequence writes
resumed_status(status) == "active"

resume_recipient_sequence(r) ==
    /\ r \in DOMAIN recipients
    /\ recipients' = update_status(recipients, r, resumed_status(recipients[r].status))
    /\ UNCHANGED <<now, config, email_sequence, seq_next_id, rate_limiter, pass,
                   reply, admin, delivered, rl_call, reply_match, retry, disk, app, skipped>>

\* add_recipient_to_sequence with valid data: recipient_repo.get_by_email;
\* an address that exists returns False
add_recipient_to_sequence(c, email) ==
    /\ admin[c].pc = "idle"
    /\ IF get_by_email(recipients, email) # {}
       THEN admin' = [admin EXCEPT ![c] = returns("False")]
       ELSE admin' = [admin EXCEPT ![c] = [IdleAdmin EXCEPT
                          !.pc = "create_recipient", !.email = email]]
    /\ UNCHANGED <<now, config, recipients, email_sequence, seq_next_id,
                   rate_limiter, pass, reply, delivered, rl_call, reply_match, retry, disk, app, skipped>>

\* an INSERT of a recipient on a table whose email column is not UNIQUE
create_recipient_not_unique(c) ==
    /\ admin[c].pc = "create_recipient"
    /\ recipients' = Append(recipients,
                            [email |-> admin[c].email, status |-> "pending"])
    /\ admin' = [admin EXCEPT ![c].pc = "create_step",
                              ![c].recipient_id = Len(recipients) + 1]
    /\ UNCHANGED <<now, config, email_sequence, seq_next_id, rate_limiter, pass,
                   reply, delivered, rl_call, reply_match, retry, disk, app, skipped>>

\* add_recipient_to_sequence: recipient_repo.create, the INSERT with status
\* pending; email is UNIQUE, so an address inserted meanwhile raises and the
\* call returns False
create_recipient(c) ==
    /\ admin[c].pc = "create_recipient"
    /\ IF get_by_email(recipients, admin[c].email) # {}
       THEN /\ admin' = [admin EXCEPT ![c] = returns("False")]
            /\ UNCHANGED recipients
       ELSE /\ recipients' = Append(recipients,
                                    [email |-> admin[c].email, status |-> "pending"])
            /\ admin' = [admin EXCEPT ![c].pc = "create_step",
                                      ![c].recipient_id = Len(recipients) + 1]
    /\ UNCHANGED <<now, config, email_sequence, seq_next_id, rate_limiter, pass,
                   reply, delivered, rl_call, reply_match, retry, disk, app, skipped>>

\* schedule_initial_email: sequence_repo.create of step 1, 30 seconds ahead
\* (a step 1 that exists raises, and schedule_initial_email returns False)
schedule_initial_create(c) ==
    /\ admin[c].pc = "create_step"
    /\ IF unique_step_free(email_sequence, admin[c].recipient_id, 1)
       THEN /\ seq_next_id <= MaxSeqId
            /\ email_sequence' = create(email_sequence, seq_next_id,
                   admin[c].recipient_id, 1, now + InitialDelaySeconds)
            /\ seq_next_id' = seq_next_id + 1
            /\ admin' = [admin EXCEPT ![c].pc = "update_status"]
       ELSE /\ admin' = [admin EXCEPT ![c] = returns("False")]
            /\ UNCHANGED <<email_sequence, seq_next_id>>
    /\ UNCHANGED <<now, config, recipients, rate_limiter, pass, reply,
                   delivered, rl_call, reply_match, retry, disk, app, skipped>>

\* a failure of sequence_repo.create after which the status is set all the same
schedule_initial_create_fails_active(c) ==
    /\ admin[c].pc = "create_step"
    /\ recipients' = update_status(recipients, admin[c].recipient_id, "active")
    /\ admin' = [admin EXCEPT ![c] = returns("False")]
    /\ UNCHANGED <<now, config, email_sequence, seq_next_id, rate_limiter, pass,
                   reply, delivered, rl_call, reply_match, retry, disk, app, skipped>>

\* schedule_initial_email: sequence_repo.create raises (the database refuses
\* the statement); the exception is caught and the call returns False
schedule_initial_create_fails(c) ==
    /\ admin[c].pc = "create_step"
    /\ admin' = [admin EXCEPT ![c] = returns("False")]
    /\ UNCHANGED <<now, config, recipients, email_sequence, seq_next_id,
                   rate_limiter, pass, reply, delivered, rl_call, reply_match, retry, disk, app, skipped>>

\* schedule_initial_email: recipient_repo.update_status(recipient_id, 'active'),
\* and the return of True
schedule_initial_update_status(c) ==
    /\ admin[c].pc = "update_status"
    /\ recipients' = update_status(recipients, admin[c].recipient_id, "active")
    /\ admin' = [admin EXCEPT ![c] = returns("True")]
    /\ UNCHANGED <<now, config, email_sequence, seq_next_id, rate_limiter, pass,
                   reply, delivered, rl_call, reply_match, retry, disk, app, skipped>>

-----------------------------------------------------------------------------
(* scheduler/sequence_manager.py: create_complete_sequence *)

\* the steps of sequence_config that are required, in the order of SequenceStep
required_steps ==
    IF config.follow_up_2_enabled THEN <<1, 2, 3>> ELSE <<1, 2>>

\* sequence_config[step]['delay_days']
delay_days_of(step) ==
    IF step = 2 THEN config.follow_up_1_delay_days
    ELSE IF step = 3 THEN config.follow_up_2_delay_days
    ELSE 0

\* _calculate_scheduled_time
calculate_scheduled_time(base_time, step) ==
    IF step = 1
    THEN base_time + InitialDelayMinutes * MinuteSeconds
    ELSE base_time + delay_days_of(step) * DaySeconds

\* create_complete_sequence: recipient_repo.get_by_id; no such recipient returns False
create_complete_sequence(c, r) ==
    /\ admin[c].pc = "idle"
    /\ IF r \in DOMAIN recipients
       THEN admin' = [admin EXCEPT ![c] = [IdleAdmin EXCEPT
                          !.pc = "get_sequences", !.recipient_id = r]]
       ELSE admin' = [admin EXCEPT ![c] = returns("False")]
    /\ UNCHANGED <<now, config, recipients, email_sequence, seq_next_id,
                   rate_limiter, pass, reply, delivered, rl_call, reply_match, retry, disk, app, skipped>>

\* create_complete_sequence: _get_recipient_sequences; a recipient that has
\* steps returns False, otherwise base_time is read from the clock
get_recipient_sequences(c) ==
    /\ admin[c].pc = "get_sequences"
    /\ IF \E row \in email_sequence : row.recipient_id = admin[c].recipient_id
       THEN admin' = [admin EXCEPT ![c] = returns("False")]
       ELSE admin' = [admin EXCEPT ![c].pc = "create_sequence",
                                   ![c].base_time = now,
                                   ![c].steps = required_steps]
    /\ UNCHANGED <<now, config, recipients, email_sequence, seq_next_id,
                   rate_limiter, pass, reply, delivered, rl_call, reply_match, retry, disk, app, skipped>>

\* create_complete_sequence: sequence_repo.create of the next required step
\* (a step that exists raises, and the call returns False)
create_sequence_step(c) ==
    /\ admin[c].pc = "create_sequence"
    /\ LET step == Head(admin[c].steps)
       IN  IF unique_step_free(email_sequence, admin[c].recipient_id, step)
           THEN /\ seq_next_id <= MaxSeqId
                /\ email_sequence' = create(email_sequence, seq_next_id,
                       admin[c].recipient_id, step,
                       calculate_scheduled_time(admin[c].base_time, step))
                /\ seq_next_id' = seq_next_id + 1
                /\ admin' = [admin EXCEPT
                       ![c].steps = Tail(@),
                       ![c].pc = IF Tail(admin[c].steps) = <<>>
                                 THEN "sequence_update_status" ELSE @]
           ELSE /\ admin' = [admin EXCEPT ![c] = returns("False")]
                /\ UNCHANGED <<email_sequence, seq_next_id>>
    /\ UNCHANGED <<now, config, recipients, rate_limiter, pass, reply,
                   delivered, rl_call, reply_match, retry, disk, app, skipped>>

\* create_complete_sequence: recipient_repo.update_status(recipient_id, 'active'),
\* and the return of True
sequence_update_status(c) ==
    /\ admin[c].pc = "sequence_update_status"
    /\ recipients' = update_status(recipients, admin[c].recipient_id, "active")
    /\ admin' = [admin EXCEPT ![c] = returns("True")]
    /\ UNCHANGED <<now, config, email_sequence, seq_next_id, rate_limiter, pass,
                   reply, delivered, rl_call, reply_match, retry, disk, app, skipped>>

-----------------------------------------------------------------------------
(* The clock *)

tick_within(days) ==
    /\ \/ /\ (now % DaySeconds) + TickSeconds <= MaxTicksPerDay * TickSeconds
          /\ now' = now + TickSeconds
       \/ /\ now + DaySeconds <= days * DaySeconds + MaxTicksPerDay * TickSeconds
          /\ now' = now + DaySeconds
    /\ UNCHANGED <<config, recipients, email_sequence, seq_next_id, rate_limiter,
                   pass, reply, admin, delivered, rl_call, reply_match, retry, disk, app, skipped>>

Tick == tick_within(MaxDays)

-----------------------------------------------------------------------------
(* The scheduler with its reply loop *)

Configs ==
    [rate_limit_per_minute : {MaxPerMinute},
     rate_limit_per_day : {MaxPerDay},
     follow_up_1_delay_days : {MaxDelayDays},
     follow_up_2_enabled : BOOLEAN,
     follow_up_2_delay_days : {MaxDelayDays}]

NoCall == [op |-> "none", result |-> FALSE, next_minute_slot |-> NULL]

\* the daemon runs; the environment it was started from is not kept
Running == [pc |-> "running", env |-> <<>>]

\* no state file yet and no write of it under way
NoDisk == [file |-> [kind |-> "missing"], pc |-> "idle"]

\* exponential_backoff_retry is not running; invocations counts the calls of
\* send_function, last_exception is "none" until an attempt has failed
IdleRetry == [pc |-> "idle", attempt |-> 0, slept_from |-> NULL,
              sleep |-> [num |-> 0, den |-> 1],
              invocations |-> 0, last_exception |-> "none"]

\* match_reply has not been called
NoReplyMatch == [called |-> FALSE, message |-> NULL, result |-> NULL]

Init ==
    /\ now = 0
    /\ config \in Configs
    /\ recipients = <<>>
    /\ email_sequence = {}
    /\ seq_next_id = 1
    /\ rate_limiter = new_rate_limiter(0)
    /\ pass = [w \in Passes |-> IdlePass]
    /\ reply = IdleReply
    /\ admin = [c \in Callers |-> IdleAdmin]
    /\ delivered = {}
    /\ rl_call = NoCall
    /\ reply_match = NoReplyMatch
    /\ retry = IdleRetry
    /\ disk = NoDisk
    /\ app = Running
    /\ skipped = NothingSkipped

Next ==
    \/ \E w \in Passes : process_due_emails(w)
    \/ \E w \in Passes : get_recipient(w)
    \/ \E w \in Passes : skip_email(w)
    \/ \E w \in Passes : send_email_success(w)
    \/ \E w \in Passes : send_email_failure(w)
    \/ \E w \in Passes : mark_sent_step(w)
    \/ \E w \in Passes : record_and_schedule_next(w)
    \/ \E r \in 1 .. MaxRecipients : cancel_delete(r)
    \/ cancel_update_status
    \/ \E r \in 1 .. MaxRecipients : pause_recipient_sequence(r)
    \/ \E r \in 1 .. MaxRecipients : resume_recipient_sequence(r)
    \/ \E email \in Emails : add_recipient_to_sequence(1, email)
    \/ create_recipient(1)
    \/ schedule_initial_create(1)
    \/ schedule_initial_update_status(1)
    \/ Tick

Spec == Init /\ [][Next]_vars

-----------------------------------------------------------------------------
(* The scheduler with one instance of process_due_emails at a time, for as  *)
(* many days as a sequence of three steps takes                             *)

SequenceConfigs ==
    [rate_limit_per_minute : {MaxPerMinute},
     rate_limit_per_day : {MaxPerDay},
     follow_up_1_delay_days : {MaxDelayDays},
     follow_up_2_enabled : BOOLEAN,
     follow_up_2_delay_days : 1 .. MaxFollowUp2DelayDays]

TickSequence == tick_within(MaxSequenceDays)

InitSequence ==
    /\ now = 0
    /\ config \in SequenceConfigs
    /\ recipients = <<>>
    /\ email_sequence = {}
    /\ seq_next_id = 1
    /\ rate_limiter = new_rate_limiter(0)
    /\ pass = [w \in Passes |-> IdlePass]
    /\ reply = IdleReply
    /\ admin = [c \in Callers |-> IdleAdmin]
    /\ delivered = {}
    /\ rl_call = NoCall
    /\ reply_match = NoReplyMatch
    /\ retry = IdleRetry
    /\ disk = NoDisk
    /\ app = Running
    /\ skipped = NothingSkipped

NextSequence ==
    \/ process_due_emails(1)
    \/ get_recipient(1)
    \/ skip_email(1)
    \/ send_email_success(1)
    \/ send_email_failure(1)
    \/ mark_sent_step(1)
    \/ record_and_schedule_next(1)
    \/ \E r \in 1 .. MaxRecipients : cancel_delete(r)
    \/ cancel_update_status
    \/ \E r \in 1 .. MaxRecipients : pause_recipient_sequence(r)
    \/ \E r \in 1 .. MaxRecipients : resume_recipient_sequence(r)
    \/ \E email \in Emails : add_recipient_to_sequence(1, email)
    \/ create_recipient(1)
    \/ schedule_initial_create(1)
    \/ schedule_initial_update_status(1)
    \/ TickSequence

SpecSequence == InitSequence /\ [][NextSequence]_vars

\* the clock of SpecSequence has read its last instant
sequence_clock_over ==
    /\ ~ ((now % DaySeconds) + TickSeconds <= MaxTicksPerDay * TickSeconds)
    /\ ~ (now + DaySeconds <= MaxSequenceDays * DaySeconds + MaxTicksPerDay * TickSeconds)

\* the same scheduler with no pause and no resume: a recipient leaves active
\* only by a reply
NextPoll ==
    \/ process_due_emails(1)
    \/ get_recipient(1)
    \/ skip_email(1)
    \/ send_email_success(1)
    \/ send_email_failure(1)
    \/ mark_sent_step(1)
    \/ record_and_schedule_next(1)
    \/ \E r \in 1 .. MaxRecipients : cancel_delete(r)
    \/ cancel_update_status
    \/ \E email \in Emails : add_recipient_to_sequence(1, email)
    \/ create_recipient(1)
    \/ schedule_initial_create(1)
    \/ schedule_initial_update_status(1)
    \/ TickSequence

SpecPoll == InitSequence /\ [][NextPoll]_vars

\* the interval job keeps starting process_due_emails and every await of a
\* pass returns; the sender answers, and succeeds in the end when it is asked
\* again and again; time passes while the limiter denies
SpecPollLive ==
    /\ SpecPoll
    /\ WF_vars(process_due_emails(1))
    /\ WF_vars(get_recipient(1))
    /\ WF_vars(skip_email(1))
    /\ WF_vars(send_email_success(1) \/ send_email_failure(1))
    /\ SF_vars(send_email_success(1))
    /\ WF_vars(mark_sent_step(1))
    /\ WF_vars(record_and_schedule_next(1))
    /\ WF_vars(TickSequence /\ ~can_send_email(rate_limiter, now).ok)

-----------------------------------------------------------------------------
(* The callers that add recipients and create sequences, on their own *)

AddedEmails == first_emails(MaxAddedRecipients)

InitAdmin ==
    /\ now = 0
    /\ config \in SequenceConfigs
    /\ recipients = <<>>
    /\ email_sequence = {}
    /\ seq_next_id = 1
    /\ rate_limiter = new_rate_limiter(0)
    /\ pass = [w \in Passes |-> IdlePass]
    /\ reply = IdleReply
    /\ admin = [c \in Callers |-> IdleAdmin]
    /\ delivered = {}
    /\ rl_call = NoCall
    /\ reply_match = NoReplyMatch
    /\ retry = IdleRetry
    /\ disk = NoDisk
    /\ app = Running
    /\ skipped = NothingSkipped

NextAdmin ==
    \/ \E c \in Callers, email \in AddedEmails : add_recipient_to_sequence(c, email)
    \/ \E c \in Callers : create_recipient(c)
    \/ \E c \in Callers : schedule_initial_create(c)
    \/ \E c \in Callers : schedule_initial_create_fails(c)
    \/ \E c \in Callers : schedule_initial_update_status(c)
    \/ \E r \in 1 .. MaxAddedRecipients : create_complete_sequence(1, r)
    \/ get_recipient_sequences(1)
    \/ create_sequence_step(1)
    \/ sequence_update_status(1)
    \/ Tick

SpecAdmin == InitAdmin /\ [][NextAdmin]_vars

-----------------------------------------------------------------------------
(* The scheduler beside a caller of create_complete_sequence, for a        *)
(* recipient that has been created and has no step yet                     *)

InitBoth ==
    /\ now = 0
    /\ config \in SequenceConfigs
    /\ recipients = [r \in 1 .. MaxRecipients |->
                        [email |-> EmailList[r], status |-> "pending"]]
    /\ email_sequence = {}
    /\ seq_next_id = 1
    /\ rate_limiter = new_rate_limiter(0)
    /\ pass = [w \in Passes |-> IdlePass]
    /\ reply = IdleReply
    /\ admin = [c \in Callers |-> IdleAdmin]
    /\ delivered = {}
    /\ rl_call = NoCall
    /\ reply_match = NoReplyMatch
    /\ retry = IdleRetry
    /\ disk = NoDisk
    /\ app = Running
    /\ skipped = NothingSkipped

NextBoth ==
    \/ process_due_emails(1)
    \/ get_recipient(1)
    \/ skip_email(1)
    \/ send_email_success(1)
    \/ send_email_failure(1)
    \/ mark_sent_step(1)
    \/ record_and_schedule_next(1)
    \/ \E r \in 1 .. MaxRecipients : pause_recipient_sequence(r)
    \/ \E r \in 1 .. MaxRecipients : resume_recipient_sequence(r)
    \/ \E r \in 1 .. MaxRecipients : create_complete_sequence(1, r)
    \/ get_recipient_sequences(1)
    \/ create_sequence_step(1)
    \/ sequence_update_status(1)
    \/ Tick

SpecBoth == InitBoth /\ [][NextBoth]_vars

-----------------------------------------------------------------------------
(* The same, with limits that allow two sends in a minute and with every    *)
(* pair of follow-up delays, for as many days as the longer delay takes     *)

OrderConfigs ==
    [rate_limit_per_minute : {MaxMinuteCap},
     rate_limit_per_day : {MaxDayCap},
     follow_up_1_delay_days : 1 .. MaxFollowUp2DelayDays,
     follow_up_2_enabled : BOOLEAN,
     follow_up_2_delay_days : 1 .. MaxFollowUp2DelayDays]

InitOrder ==
    /\ now = 0
    /\ config \in OrderConfigs
    /\ recipients = [r \in 1 .. MaxRecipients |->
                        [email |-> EmailList[r], status |-> "pending"]]
    /\ email_sequence = {}
    /\ seq_next_id = 1
    /\ rate_limiter = new_rate_limiter(0)
    /\ pass = [w \in Passes |-> IdlePass]
    /\ reply = IdleReply
    /\ admin = [c \in Callers |-> IdleAdmin]
    /\ delivered = {}
    /\ rl_call = NoCall
    /\ reply_match = NoReplyMatch
    /\ retry = IdleRetry
    /\ disk = NoDisk
    /\ app = Running
    /\ skipped = NothingSkipped

NextOrder ==
    \/ process_due_emails(1)
    \/ get_recipient(1)
    \/ skip_email(1)
    \/ send_email_success(1)
    \/ send_email_failure(1)
    \/ mark_sent_step(1)
    \/ record_and_schedule_next(1)
    \/ \E r \in 1 .. MaxRecipients : pause_recipient_sequence(r)
    \/ \E r \in 1 .. MaxRecipients : resume_recipient_sequence(r)
    \/ \E r \in 1 .. MaxRecipients : create_complete_sequence(1, r)
    \/ get_recipient_sequences(1)
    \/ create_sequence_step(1)
    \/ sequence_update_status(1)
    \/ TickSequence

SpecOrder == InitOrder /\ [][NextOrder]_vars

-----------------------------------------------------------------------------
(* The rate limiter on its own: its callers ask, record and read the status *)
(* at instants half a minute apart around each midnight                     *)

ClockInstants ==
    {d * DaySeconds + k * TickSeconds : d \in 0 .. MaxClockDays, k \in 0 .. MaxClockTicks}
    \cup {d * DaySeconds - TickSeconds : d \in 1 .. MaxClockDays}

LimiterConfigs ==
    [rate_limit_per_minute : 1 .. MaxMinuteCap,
     rate_limit_per_day : 1 .. MaxDayCap,
     follow_up_1_delay_days : {MaxDelayDays},
     follow_up_2_enabled : {TRUE},
     follow_up_2_delay_days : {MaxDelayDays}]

call_can_send_email ==
    /\ LET res == can_send_email(rate_limiter, now)
       IN  /\ rate_limiter' = res.limiter
           /\ rl_call' = [op |-> "can_send_email", result |-> res.ok,
                          next_minute_slot |-> NULL]
    /\ UNCHANGED <<now, config, recipients, email_sequence, seq_next_id, pass,
                   reply, admin, delivered, reply_match, retry, disk, app, skipped>>

call_record_email_sent ==
    /\ rate_limiter.daily_count < MaxRecords
    /\ Len(rate_limiter.minute_window) < MaxRecords
    /\ rate_limiter' = record_email_sent(rate_limiter, now)
    /\ rl_call' = [op |-> "record_email_sent", result |-> FALSE,
                   next_minute_slot |-> NULL]
    /\ UNCHANGED <<now, config, recipients, email_sequence, seq_next_id, pass,
                   reply, admin, delivered, reply_match, retry, disk, app, skipped>>

call_get_current_rate ==
    /\ LET res == get_current_rate(rate_limiter, now)
       IN  /\ rate_limiter' = res.limiter
           /\ rl_call' = [op |-> "get_current_rate", result |-> res.can_send_now,
                          next_minute_slot |-> res.next_minute_slot]
    /\ UNCHANGED <<now, config, recipients, email_sequence, seq_next_id, pass,
                   reply, admin, delivered, reply_match, retry, disk, app, skipped>>

clock_advances ==
    /\ \E t \in ClockInstants : t > now /\ now' = t
    /\ rl_call' = NoCall
    /\ UNCHANGED <<config, recipients, email_sequence, seq_next_id, rate_limiter,
                   pass, reply, admin, delivered, reply_match, retry, disk, app, skipped>>

InitRL ==
    /\ now = 0
    /\ config \in LimiterConfigs
    /\ recipients = <<>>
    /\ email_sequence = {}
    /\ seq_next_id = 1
    /\ rate_limiter = new_rate_limiter(0)
    /\ pass = [w \in Passes |-> IdlePass]
    /\ reply = IdleReply
    /\ admin = [c \in Callers |-> IdleAdmin]
    /\ delivered = {}
    /\ rl_call = NoCall
    /\ reply_match = NoReplyMatch
    /\ retry = IdleRetry
    /\ disk = NoDisk
    /\ app = Running
    /\ skipped = NothingSkipped

NextRL ==
    \/ call_can_send_email
    \/ call_record_email_sent
    \/ call_get_current_rate
    \/ clock_advances

SpecRL == InitRL /\ [][NextRL]_vars

-----------------------------------------------------------------------------
(* AdaptiveRateLimiter.record_send_result, called on its own *)

\* results recorded in one behaviour
MaxResults == 7

\* values of current_delay the limiter reaches in longer use: the initial
\* value, the floor, a value less than a tenth above the floor, a value from
\* which a doubling passes the ceiling, and the ceiling
StartDelays ==
    {base_delay, min_delay, fraction(2187, 4000), fraction(16, 1), max_delay}

InitAdaptive ==
    /\ now = 0
    /\ config \in {c \in Configs : c.follow_up_2_enabled}
    /\ recipients = <<>>
    /\ email_sequence = {}
    /\ seq_next_id = 1
    /\ \E delay \in StartDelays :
           rate_limiter = [new_rate_limiter(0) EXCEPT !.current_delay = delay]
    /\ pass = [w \in Passes |-> IdlePass]
    /\ reply = IdleReply
    /\ admin = [c \in Callers |-> IdleAdmin]
    /\ delivered = {}
    /\ rl_call = NoCall
    /\ reply_match = NoReplyMatch
    /\ retry = IdleRetry
    /\ disk = NoDisk
    /\ app = Running
    /\ skipped = NothingSkipped

\* rate_limiter.record_send_result(success, error_code)
call_record_send_result(success, error_code) ==
    /\ Len(rate_limiter.minute_window) < MaxResults
    /\ rate_limiter' = record_send_result(rate_limiter, now, success, error_code)
    /\ rl_call' = [op |-> "record_send_result", result |-> success,
                   next_minute_slot |-> NULL, error_code |-> error_code]
    /\ UNCHANGED <<now, config, recipients, email_sequence, seq_next_id, pass,
                   reply, admin, delivered, reply_match, retry, disk, app, skipped>>

NextAdaptive ==
    \/ call_record_send_result(TRUE, "")
    \/ \E error_code \in ErrorCodes : call_record_send_result(FALSE, error_code)

SpecAdaptive == InitAdaptive /\ [][NextAdaptive]_vars

-----------------------------------------------------------------------------
(* AdaptiveRateLimiter.exponential_backoff_retry beside another user of the *)
(* limiter: each await of a sleep or of the send function is a step         *)

\* backoff_multiplier ** attempt
RECURSIVE power(_, _)
power(p, n) == IF n = 0 THEN fraction(1, 1) ELSE times(p, power(p, n - 1))

\* whole seconds as a fraction
seconds(n) == fraction(n, 1)

\* asyncio.sleep(delay) started at slept_from is over
slept(slept_from, delay) == (now - slept_from) * delay.den >= delay.num

\* rate_limiter.exponential_backoff_retry(send_function): the first attempt
\* enters wait_for_rate_limit
exponential_backoff_retry ==
    /\ retry.pc = "idle"
    /\ retry' = [IdleRetry EXCEPT !.pc = "wait_for_rate_limit"]
    /\ UNCHANGED <<now, config, recipients, email_sequence, seq_next_id,
                   rate_limiter, pass, reply, admin, delivered, rl_call,
                   reply_match, disk, app, skipped>>

\* one turn of the loop of wait_for_rate_limit: can_send_email, then either
\* the return (the caller awaits send_function at once), or a sleep for the
\* minute window, or the immediate return for the daily quota, or the
\* clean-up and the next turn
wait_for_rate_limit ==
    /\ retry.pc = "wait_for_rate_limit"
    /\ LET res == can_send_email(rate_limiter, now)
           rl == res.limiter
       IN  IF res.ok
           THEN /\ retry' = [retry EXCEPT !.pc = "send_function",
                                              !.invocations = @ + 1]
                /\ rate_limiter' = rl
           ELSE IF Len(rl.minute_window) >= config.rate_limit_per_minute
           THEN LET wait_seconds == Head(rl.minute_window) + MinuteSeconds - now
                IN  IF wait_seconds > 0
                    THEN /\ retry' = [retry EXCEPT
                                 !.pc = "sleep",
                                 !.slept_from = now,
                                 !.sleep = min_of(seconds(wait_seconds),
                                                  seconds(MinuteSeconds))]
                         /\ rate_limiter' = rl
                    ELSE /\ retry' = retry
                         /\ rate_limiter' = cleanup_old_entries(rl, now)
           ELSE IF rl.daily_count >= config.rate_limit_per_day
           THEN IF rl.daily_reset_time - now > 0
                THEN /\ retry' = [retry EXCEPT !.pc = "send_function",
                                              !.invocations = @ + 1]
                     /\ rate_limiter' = rl
                ELSE /\ retry' = retry
                     /\ rate_limiter' = cleanup_old_entries(rl, now)
           ELSE /\ retry' = retry
                /\ rate_limiter' = cleanup_old_entries(rl, now)
    /\ UNCHANGED <<now, config, recipients, email_sequence, seq_next_id, pass,
                   reply, admin, delivered, rl_call, reply_match, disk, app, skipped>>

\* the sleep of wait_for_rate_limit is over: _cleanup_old_entries and the
\* next turn of the loop
wait_for_rate_limit_wakes ==
    /\ retry.pc = "sleep"
    /\ slept(retry.slept_from, retry.sleep)
    /\ rate_limiter' = cleanup_old_entries(rate_limiter, now)
    /\ retry' = [retry EXCEPT !.pc = "wait_for_rate_limit"]
    /\ UNCHANGED <<now, config, recipients, email_sequence, seq_next_id, pass,
                   reply, admin, delivered, rl_call, reply_match, disk, app, skipped>>

\* send_function returns: record_send_result(True) and the result is returned
send_function_returns ==
    /\ retry.pc = "send_function"
    /\ rate_limiter' = record_send_result(rate_limiter, now, TRUE, "")
    /\ retry' = [retry EXCEPT !.pc = "returned"]
    /\ UNCHANGED <<now, config, recipients, email_sequence, seq_next_id, pass,
                   reply, admin, delivered, rl_call, reply_match, disk, app, skipped>>

\* a loop that goes on for one attempt more
send_function_raises_once_more(error_code) ==
    /\ retry.pc = "send_function"
    /\ LET rl == record_send_result(rate_limiter, now, FALSE, error_code)
       IN  /\ rate_limiter' = rl
           /\ retry' = IF retry.attempt < backoff_max_retries + 1
                       THEN [retry EXCEPT
                                !.pc = "backoff_sleep",
                                !.last_exception = error_code,
                                !.slept_from = now,
                                !.sleep = min_of(max_delay,
                                                 times(power(backoff_multiplier,
                                                             retry.attempt),
                                                       rl.current_delay))]
                       ELSE [retry EXCEPT !.pc = "raised",
                                          !.last_exception = error_code]
    /\ UNCHANGED <<now, config, recipients, email_sequence, seq_next_id, pass,
                   reply, admin, delivered, rl_call, reply_match, disk, app, skipped>>

\* send_function raises: record_send_result(False, str(e)), then the backoff
\* sleep, or the end of the loop after the last attempt and the raise of
\* last_exception
send_function_raises(error_code) ==
    /\ retry.pc = "send_function"
    /\ LET rl == record_send_result(rate_limiter, now, FALSE, error_code)
       IN  /\ rate_limiter' = rl
           /\ retry' = IF retry.attempt < backoff_max_retries
                       THEN [retry EXCEPT
                                !.pc = "backoff_sleep",
                                !.last_exception = error_code,
                                !.slept_from = now,
                                !.sleep = min_of(max_delay,
                                                 times(power(backoff_multiplier,
                                                             retry.attempt),
                                                       rl.current_delay))]
                       ELSE [retry EXCEPT !.pc = "raised",
                                          !.last_exception = error_code]
    /\ UNCHANGED <<now, config, recipients, email_sequence, seq_next_id, pass,
                   reply, admin, delivered, rl_call, reply_match, disk, app, skipped>>

\* the backoff sleep is over: the next attempt enters wait_for_rate_limit
next_attempt ==
    /\ retry.pc = "backoff_sleep"
    /\ slept(retry.slept_from, retry.sleep)
    /\ retry' = [retry EXCEPT !.pc = "wait_for_rate_limit", !.attempt = @ + 1]
    /\ UNCHANGED <<now, config, recipients, email_sequence, seq_next_id,
                   rate_limiter, pass, reply, admin, delivered, rl_call,
                   reply_match, disk, app, skipped>>

InitRetry ==
    /\ now = 0
    /\ config \in LimiterConfigs
    /\ recipients = <<>>
    /\ email_sequence = {}
    /\ seq_next_id = 1
    /\ rate_limiter = new_rate_limiter(0)
    /\ pass = [w \in Passes |-> IdlePass]
    /\ reply = IdleReply
    /\ admin = [c \in Callers |-> IdleAdmin]
    /\ delivered = {}
    /\ rl_call = NoCall
    /\ reply_match = NoReplyMatch
    /\ retry = IdleRetry
    /\ disk = NoDisk
    /\ app = Running
    /\ skipped = NothingSkipped

NextRetry ==
    \/ exponential_backoff_retry
    \/ wait_for_rate_limit
    \/ wait_for_rate_limit_wakes
    \/ send_function_returns
    \/ \E error_code \in ErrorCodes : send_function_raises(error_code)
    \/ next_attempt
    \/ call_record_email_sent
    \/ clock_advances

SpecRetry == InitRetry /\ [][NextRetry]_vars

\* the last instant the clock reads
last_instant == CHOOSE t \in ClockInstants : \A u \in ClockInstants : u <= t

\* the coroutine cannot go on before the clock does
waits_for_clock == retry.pc \in {"wait_for_rate_limit", "sleep", "backoff_sleep"}

\* the event loop runs every coroutine that is ready, a sleep that is over
\* wakes, send_function returns or raises, and time passes for a coroutine
\* that waits for it
SpecRetryLive ==
    /\ SpecRetry
    /\ WF_vars(exponential_backoff_retry)
    /\ WF_vars(wait_for_rate_limit /\ retry' # retry)
    /\ WF_vars(wait_for_rate_limit_wakes)
    /\ WF_vars(send_function_returns
                 \/ \E error_code \in ErrorCodes : send_function_raises(error_code))
    /\ WF_vars(next_attempt)
    /\ WF_vars(clock_advances /\ waits_for_clock)

-----------------------------------------------------------------------------
(* RateLimiter._save_state and _load_state: the process may end at any      *)
(* statement of record_email_sent, and a new process loads the state file   *)

\* record_email_sent up to the call of _save_state
record_email_sent_in_memory ==
    /\ disk.pc = "idle"
    /\ rate_limiter.daily_count < MaxRecords
    /\ Len(rate_limiter.minute_window) < MaxRecords
    /\ rate_limiter' = record_email_sent(rate_limiter, now)
    /\ disk' = [disk EXCEPT !.pc = "save_state"]
    /\ UNCHANGED <<now, config, recipients, email_sequence, seq_next_id, pass,
                   reply, admin, delivered, rl_call, reply_match, retry, app, skipped>>

\* _save_state: open(self.persistence_file, 'w') truncates the file in place
save_state_opens ==
    /\ disk.pc = "save_state"
    /\ disk' = [disk EXCEPT !.pc = "dump", !.file = [kind |-> "truncated"]]
    /\ UNCHANGED <<now, config, recipients, email_sequence, seq_next_id,
                   rate_limiter, pass, reply, admin, delivered, rl_call,
                   reply_match, retry, app, skipped>>

\* _save_state: json.dump(state, f) and the close of the file
save_state_dumps ==
    /\ disk.pc = "dump"
    /\ disk' = [disk EXCEPT
                   !.pc = "idle",
                   !.file = [kind |-> "state",
                             daily_count |-> rate_limiter.daily_count,
                             daily_reset_time |-> rate_limiter.daily_reset_time,
                             minute_window |-> rate_limiter.minute_window]]
    /\ UNCHANGED <<now, config, recipients, email_sequence, seq_next_id,
                   rate_limiter, pass, reply, admin, delivered, rl_call,
                   reply_match, retry, app, skipped>>

\* _load_state on the limiter __init__ built at current_time: no file leaves
\* it alone, a file that json.load rejects resets count and window, a whole
\* file is loaded and cleaned up
load_state(file, current_time) ==
    LET rl == new_rate_limiter(current_time)
    IN  IF file.kind = "missing" THEN rl
        ELSE IF file.kind = "truncated"
             THEN [rl EXCEPT !.daily_count = 0, !.minute_window = <<>>]
        ELSE cleanup_old_entries(
                 [rl EXCEPT !.daily_count = file.daily_count,
                            !.daily_reset_time = file.daily_reset_time,
                            !.minute_window = file.minute_window],
                 current_time)

\* the process ends, at whatever statement, and the application starts again
restart ==
    /\ rate_limiter' = load_state(disk.file, now)
    /\ disk' = [disk EXCEPT !.pc = "idle"]
    /\ rl_call' = [op |-> "restart", result |-> FALSE, next_minute_slot |-> NULL]
    /\ UNCHANGED <<now, config, recipients, email_sequence, seq_next_id, pass,
                   reply, admin, delivered, reply_match, retry, app, skipped>>

\* can_send_email between two statements of no other call
can_send_email_at_rest ==
    /\ disk.pc = "idle"
    /\ call_can_send_email

InitPersist ==
    /\ now = 0
    /\ config \in LimiterConfigs
    /\ recipients = <<>>
    /\ email_sequence = {}
    /\ seq_next_id = 1
    /\ rate_limiter = new_rate_limiter(0)
    /\ pass = [w \in Passes |-> IdlePass]
    /\ reply = IdleReply
    /\ admin = [c \in Callers |-> IdleAdmin]
    /\ delivered = {}
    /\ rl_call = NoCall
    /\ reply_match = NoReplyMatch
    /\ retry = IdleRetry
    /\ disk = NoDisk
    /\ app = Running
    /\ skipped = NothingSkipped

NextPersist ==
    \/ record_email_sent_in_memory
    \/ save_state_opens
    \/ save_state_dumps
    \/ restart
    \/ can_send_email_at_rest
    \/ clock_advances

SpecPersist == InitPersist /\ [][NextPersist]_vars

-----------------------------------------------------------------------------
(* main.py: the `run` command, from the environment to the started scheduler *)

\* what the environment may hold for a numeric setting
EnvValues == {"2", "1", "0", "-1", "abc"}

\* int(os.getenv(...)): the value, or the ValueError a text that is no
\* integer raises
int(text) ==
    CASE text = "2" -> [raises |-> FALSE, value |-> 2]
      [] text = "1" -> [raises |-> FALSE, value |-> 1]
      [] text = "0" -> [raises |-> FALSE, value |-> 0]
      [] text = "-1" -> [raises |-> FALSE, value |-> 0 - 1]
      [] OTHER -> [raises |-> TRUE, value |-> 0]

\* the numeric settings Config.__init__ reads
NumericSettings ==
    {"RATE_LIMIT_PER_MINUTE", "RATE_LIMIT_PER_DAY", "FOLLOW_UP_1_DELAY_DAYS",
     "FOLLOW_UP_2_DELAY_DAYS"}

\* no Config object yet
NoConfig ==
    [rate_limit_per_minute |-> NULL, rate_limit_per_day |-> NULL,
     follow_up_1_delay_days |-> NULL, follow_up_2_enabled |-> FALSE,
     follow_up_2_delay_days |-> NULL]

\* Config.validate_configuration: the numeric checks (no step of `run`
\* calls it)
validate_configuration(c) ==
    /\ ~ (c.rate_limit_per_minute <= 0 \/ c.rate_limit_per_day <= 0)
    /\ ~ (c.follow_up_1_delay_days <= 0 \/ c.follow_up_2_delay_days <= 0)

InitStartup ==
    /\ now = 0
    /\ config = NoConfig
    /\ recipients = <<>>
    /\ email_sequence = {}
    /\ seq_next_id = 1
    /\ rate_limiter = new_rate_limiter(0)
    /\ pass = [w \in Passes |-> IdlePass]
    /\ reply = IdleReply
    /\ admin = [c \in Callers |-> IdleAdmin]
    /\ delivered = {}
    /\ rl_call = NoCall
    /\ reply_match = NoReplyMatch
    /\ retry = IdleRetry
    /\ disk = NoDisk
    /\ skipped = NothingSkipped
    /\ \E env \in [NumericSettings -> EnvValues] :
           app = [pc |-> "cmd_run_daemon", env |-> env]

\* cmd_run_daemon: config = Config(); a ValueError is caught and the process
\* exits with status 1
load_config ==
    /\ app.pc = "cmd_run_daemon"
    /\ IF \E name \in NumericSettings : int(app.env[name]).raises
       THEN /\ app' = [app EXCEPT !.pc = "exit"]
            /\ UNCHANGED config
       ELSE /\ app' = [app EXCEPT !.pc = "initialize"]
            /\ config' =
                   [rate_limit_per_minute |-> int(app.env["RATE_LIMIT_PER_MINUTE"]).value,
                    rate_limit_per_day |-> int(app.env["RATE_LIMIT_PER_DAY"]).value,
                    follow_up_1_delay_days |-> int(app.env["FOLLOW_UP_1_DELAY_DAYS"]).value,
                    follow_up_2_enabled |-> TRUE,
                    follow_up_2_delay_days |-> int(app.env["FOLLOW_UP_2_DELAY_DAYS"]).value]
    /\ UNCHANGED <<now, recipients, email_sequence, seq_next_id, rate_limiter,
                   pass, reply, admin, delivered, rl_call, reply_match, retry,
                   disk, skipped>>

\* app.initialize(): the components are built from the configuration
initialize ==
    /\ app.pc = "initialize"
    /\ rate_limiter' = new_rate_limiter(now)
    /\ app' = [app EXCEPT !.pc = "start_daemon"]
    /\ UNCHANGED <<now, config, recipients, email_sequence, seq_next_id, pass,
                   reply, admin, delivered, rl_call, reply_match, retry, disk, skipped>>

\* app.initialize() raises (database, authentication): exit with status 1
initialize_fails ==
    /\ app.pc = "initialize"
    /\ app' = [app EXCEPT !.pc = "exit"]
    /\ UNCHANGED <<now, config, recipients, email_sequence, seq_next_id,
                   rate_limiter, pass, reply, admin, delivered, rl_call,
                   reply_match, retry, disk, skipped>>

\* app.start_daemon(): self.scheduler.start()
start_daemon ==
    /\ app.pc = "start_daemon"
    /\ app' = [app EXCEPT !.pc = "running"]
    /\ UNCHANGED <<now, config, recipients, email_sequence, seq_next_id,
                   rate_limiter, pass, reply, admin, delivered, rl_call,
                   reply_match, retry, disk, skipped>>

NextStartup ==
    \/ load_config
    \/ initialize
    \/ initialize_fails
    \/ start_daemon

SpecStartup == InitStartup /\ [][NextStartup]_vars

-----------------------------------------------------------------------------
(* replies/reply_matcher.py: ReplyMatcher.match_reply, called on its own *)

\* timedelta(days=30) of _match_by_sender
RecencyDays == 30
\* recipients and sent steps in the tables match_reply reads
MaxMatchRecipients == 2

\* addresses as stored and as received: the tables compare them exactly
MatchAddresses == {"a@x.com", "A@x.com", "b@x.com"}

\* str.lower() over the addresses of the model
lower(address) ==
    CASE address = "A@x.com" -> "a@x.com"
      [] OTHER -> address

\* _extract_email_address: the address of the from field, lower-cased
extract_email_address(from) == lower(from)

Subjects == {"offer", "Re: offer", "out of office", "Re: out of office"}
BodyPreviews == {"thanks", "I am on vacation"}

\* re.match of one of reply_patterns['subject_prefixes'] on the subject
is_reply_subject(subject) == subject \in {"Re: offer", "Re: out of office"}

\* _is_auto_reply: one of auto_reply_indicators in subject + body preview
is_auto_reply(subject, body_preview) ==
    \/ subject \in {"out of office", "Re: out of office"}
    \/ body_preview = "I am on vacation"

\* EmailSequenceRepository.get_by_message_id: the rows with that message id
get_by_message_id(table, message_id) ==
    {row \in table : row.message_id = message_id}

\* match_reply returned None
NoMatch == [recipient_id |-> 0, confidence |-> "none", matching_method |-> "none"]

ReplyMatch(recipient_id, confidence, matching_method) ==
    [recipient_id |-> recipient_id, confidence |-> confidence,
     matching_method |-> matching_method]

\* results[0] of a query by a unique key
first_id(ids) == CHOOSE id \in ids : \A other \in ids : id <= other

\* _match_by_message_id without the check of the sender
match_by_message_id_any_sender(people, table, in_reply_to, from_address) ==
    IF in_reply_to = NULL THEN NoMatch
    ELSE LET found == get_by_message_id(table, in_reply_to)
         IN  IF found = {} THEN NoMatch
             ELSE LET sequence == CHOOSE row \in found :
                                      \A other \in found : row.id <= other.id
                  IN  IF sequence.recipient_id \notin DOMAIN people THEN NoMatch
                      ELSE ReplyMatch(sequence.recipient_id, "high", "message_id")

\* _match_by_message_id
match_by_message_id(people, table, in_reply_to, from_address) ==
    IF in_reply_to = NULL THEN NoMatch
    ELSE LET found == get_by_message_id(table, in_reply_to)
         IN  IF found = {} THEN NoMatch
             ELSE LET sequence == CHOOSE row \in found :
                                      \A other \in found : row.id <= other.id
                  IN  IF \/ sequence.recipient_id \notin DOMAIN people
                         \/ lower(people[sequence.recipient_id].email)
                                # lower(from_address)
                      THEN NoMatch
                      ELSE ReplyMatch(sequence.recipient_id, "high", "message_id")

\* _match_by_subject
match_by_subject(people, subject, from_address) ==
    IF ~is_reply_subject(subject) THEN NoMatch
    ELSE LET found == get_by_email(people, from_address)
         IN  IF found = {} THEN NoMatch
             ELSE IF people[first_id(found)].status \notin {"active", "pending"}
                  THEN NoMatch
                  ELSE ReplyMatch(first_id(found), "medium", "subject_pattern")

\* _match_by_sender
match_by_sender(people, time, from_address, subject, received_time, body_preview) ==
    LET found == get_by_email(people, from_address)
    IN  IF found = {} THEN NoMatch
        ELSE IF people[first_id(found)].status \notin {"active", "pending"}
             THEN NoMatch
        ELSE IF is_auto_reply(subject, body_preview) THEN NoMatch
        ELSE IF received_time # NULL /\ received_time < time - RecencyDays * DaySeconds
             THEN NoMatch
        ELSE ReplyMatch(first_id(found), "low", "sender_analysis")

\* match_reply trying the sender before the subject
match_reply_sender_first(people, table, time, message) ==
    LET from_address == extract_email_address(message.from)
        by_message_id == match_by_message_id(people, table, message.in_reply_to,
                                             from_address)
        by_subject == match_by_subject(people, message.subject, from_address)
        by_sender == match_by_sender(people, time, from_address, message.subject,
                                     message.received_time, message.body_preview)
    IN  IF from_address = "" THEN NoMatch
        ELSE IF by_message_id # NoMatch THEN by_message_id
        ELSE IF by_sender # NoMatch THEN by_sender
        ELSE IF by_subject # NoMatch THEN by_subject
        ELSE NoMatch

\* match_reply
match_reply(people, table, time, message) ==
    LET from_address == extract_email_address(message.from)
        by_message_id == match_by_message_id(people, table, message.in_reply_to,
                                             from_address)
        by_subject == match_by_subject(people, message.subject, from_address)
        by_sender == match_by_sender(people, time, from_address, message.subject,
                                     message.received_time, message.body_preview)
    IN  IF from_address = "" THEN NoMatch
        ELSE IF by_message_id # NoMatch THEN by_message_id
        ELSE IF by_subject # NoMatch THEN by_subject
        ELSE IF by_sender # NoMatch THEN by_sender
        ELSE NoMatch

\* the first step of each recipient, sent by pass 1
sent_step(recipient_id) ==
    [id |-> recipient_id, recipient_id |-> recipient_id, step |-> 1,
     scheduled_at |-> 0, sent_at |-> 0,
     message_id |-> message_id_of(1, recipient_id), replied |-> FALSE]

\* the message ids a message may name: every step's, sent or not
MatchMessageIds ==
    {message_id_of(1, id) : id \in 1 .. MaxMatchRecipients}

\* the messages of the inbox
Messages ==
    [from : MatchAddresses \cup {""},
     in_reply_to : MatchMessageIds \cup {NULL},
     subject : Subjects,
     body_preview : BodyPreviews,
     received_time : {NULL, DaySeconds, (RecencyDays + 1) * DaySeconds}]

\* the tables hold recipients of distinct addresses in any status, some of
\* them with a sent first step; the clock reads a day past the recency limit
InitMatcher ==
    /\ now = (RecencyDays + 2) * DaySeconds
    /\ config \in {c \in Configs : c.follow_up_2_enabled}
    /\ recipients \in {people \in [1 .. MaxMatchRecipients ->
                                   [email : MatchAddresses, status : Statuses]] :
                          \A i, j \in DOMAIN people :
                              people[i].email = people[j].email => i = j}
    /\ \E sent \in SUBSET (1 .. MaxMatchRecipients) :
           email_sequence = {sent_step(r) : r \in sent}
    /\ seq_next_id = MaxMatchRecipients + 1
    /\ rate_limiter = new_rate_limiter(now)
    /\ pass = [w \in Passes |-> IdlePass]
    /\ reply = IdleReply
    /\ admin = [c \in Callers |-> IdleAdmin]
    /\ delivered = {}
    /\ rl_call = NoCall
    /\ reply_match = NoReplyMatch
    /\ retry = IdleRetry
    /\ disk = NoDisk
    /\ app = Running
    /\ skipped = NothingSkipped

\* reply_matcher.match_reply(message), on one message of the inbox
call_match_reply ==
    /\ ~reply_match.called
    /\ \E message \in Messages :
           reply_match' = [called |-> TRUE, message |-> message,
                           result |-> match_reply(recipients, email_sequence,
                                                  now, message)]
    /\ UNCHANGED <<now, config, recipients, email_sequence, seq_next_id,
                   rate_limiter, pass, reply, admin, delivered, rl_call, retry, disk, app, skipped>>

NextMatcher == call_match_reply

SpecMatcher == InitMatcher /\ [][NextMatcher]_vars

-----------------------------------------------------------------------------
(* replies/reply_tracker.py: ReplyTracker processes one message of the      *)
(* inbox, over the same tables and messages                                 *)

\* re.match of one of reply_subject_patterns on the subject (RE:, FW:, FWD:)
tracker_reply_subject(subject) == subject \in {"Re: offer", "Re: out of office"}

\* known_recipients.get(from_address): the cache maps email.lower() to the id
\* of the recipient loaded last; 0 for no entry
known_recipient(people, known, from_address) ==
    LET ids == {id \in known : lower(people[id].email) = from_address}
    IN  IF ids = {} THEN 0
        ELSE CHOOSE id \in ids : \A other \in ids : other <= id

\* _is_reply_message: inReplyTo names a sent message, or the subject has a
\* reply or forward prefix, or the sender is in the cache
is_reply_message(people, table, known, message) ==
    \/ /\ message.in_reply_to # NULL
       /\ get_by_message_id(table, message.in_reply_to) # {}
    \/ tracker_reply_subject(message.subject)
    \/ /\ extract_email_address(message.from) # ""
       /\ known_recipient(people, known, extract_email_address(message.from)) # 0

\* _identify_replying_recipient: the cache first, then get_by_email; 0 for None
identify_replying_recipient(people, known, message) ==
    LET from_address == extract_email_address(message.from)
        cached == known_recipient(people, known, from_address)
        found == get_by_email(people, from_address)
    IN  IF from_address = "" THEN 0
        ELSE IF cached # 0 THEN cached
        ELSE IF found # {} THEN first_id(found)
        ELSE 0

\* _process_message on one message of the inbox, with a cache of
\* known_recipients loaded at some earlier time: _is_reply_message, then
\* _identify_replying_recipient; a recipient found goes to _handle_reply
process_message ==
    /\ ~reply_match.called
    /\ reply.pc = "idle"
    /\ \E message \in Messages : \E known \in SUBSET DOMAIN recipients :
           LET recipient_id ==
                   IF is_reply_message(recipients, email_sequence, known, message)
                   THEN identify_replying_recipient(recipients, known, message)
                   ELSE 0
           IN  /\ reply_match' = [called |-> TRUE, message |-> message,
                                  result |-> ReplyMatch(recipient_id, "none",
                                                        "reply_tracker")]
               /\ reply' = IF recipient_id # 0
                           THEN [IdleReply EXCEPT !.pc = "handle_reply",
                                                  !.recipient_id = recipient_id]
                           ELSE IdleReply
    /\ UNCHANGED <<now, config, recipients, email_sequence, seq_next_id,
                   rate_limiter, pass, admin, delivered, rl_call, retry, disk, app, skipped>>

\* _handle_reply: recipient_repo.get_by_id, then the scheduler's
\* cancel_future_emails, of which this is the DELETE
handle_reply ==
    /\ reply.pc = "handle_reply"
    /\ IF reply.recipient_id \in DOMAIN recipients
       THEN LET res == cancel_future_emails(email_sequence, reply.recipient_id)
            IN  /\ email_sequence' = res.table
                /\ reply' = [reply EXCEPT !.pc = "update_status",
                                          !.cancelled_count = res.affected_rows]
       ELSE /\ email_sequence' = email_sequence
            /\ reply' = IdleReply
    /\ UNCHANGED <<now, config, recipients, seq_next_id, rate_limiter, pass,
                   admin, delivered, rl_call, reply_match, retry, disk, app, skipped>>

NextTracker ==
    \/ process_message
    \/ handle_reply
    \/ cancel_update_status

SpecTracker == InitMatcher /\ [][NextTracker]_vars

-----------------------------------------------------------------------------
(* Properties of the scheduler with its reply loop *)

\* the step a pass is working on
current(w) == Head(pass[w].due)

\* email_sender.send_email is called, whatever it returns
sender_invoked(w) == send_email_success(w) \/ send_email_failure(w)

\* the sends the limiter has recorded that are less than 60 seconds old
recorded_in_trailing_minute ==
    {i \in DOMAIN rate_limiter.minute_window :
        rate_limiter.minute_window[i] > now - MinuteSeconds}

\* C1: with overlapping passes, the gate can_send_email followed by
\* record_send_result acts as one critical section: the limiter never holds
\* more than max_per_minute sends of the trailing 60 seconds, nor more than
\* max_per_day sends of one day.
C1_RateGateIsCriticalSection ==
    /\ Cardinality(recorded_in_trailing_minute) <= config.rate_limit_per_minute
    /\ rate_limiter.daily_count <= config.rate_limit_per_day

\* C2: whenever the sender is invoked for a step, the status of the recipient
\* in the database at that moment is not replied.
C2_NeverSentToReplied ==
    [][\A w \in Passes : sender_invoked(w) =>
          recipients[current(w).recipient_id].status # "replied"]_vars

\* C2, as the code has it: a pass that is past the send read the recipient
\* immediately before it, and the status it read was not replied.
C2_SentOnlyAfterRecheck ==
    \A w \in Passes : pass[w].pc \in {"mark_sent", "record_send_result"} =>
        pass[w].status # "replied"

\* a reply was recorded while a pass was between its re-check and its mark_sent
C2_ReplyBesideSend ==
    \E w \in Passes : /\ pass[w].pc = "mark_sent"
                      /\ recipients[current(w).recipient_id].status = "replied"

\* C3: no step is sent twice: the sender succeeds at most once per
\* (recipient, step number), overlapping passes included.
C3_NoStepSentTwice ==
    [][\A w \in Passes : send_email_success(w) =>
          <<current(w).recipient_id, current(w).step>> \notin delivered]_vars

\* C4: replied is terminal: no operation changes the status of a replied
\* recipient.
C4_RepliedIsTerminal ==
    [][\A r \in DOMAIN recipients : recipients[r].status = "replied" =>
          recipients'[r].status = "replied"]_vars

\* C5: cancelling again for a recipient that is already replied changes
\* nothing and returns 0.
C5_RecancelIsNoOp ==
    [][\A r \in DOMAIN recipients :
          cancel_delete(r) /\ recipients[r].status = "replied" =>
              /\ reply'.cancelled_count = 0
              /\ email_sequence' = email_sequence]_vars

\* C6: while a recipient is replied, the due-step query returns no step of
\* that recipient, now and at every later time.
C6_RepliedHasNoDueStep ==
    \A row \in email_sequence :
        recipients[row.recipient_id].status = "replied" =>
            LET later == IF row.scheduled_at > now THEN row.scheduled_at ELSE now
            IN  row \notin due_rows(email_sequence, later)

\* C7: when the cancellation of a step completes before the send path marks
\* it sent, the send path schedules no follow-up for that recipient.
C7_CancelledSendSchedulesNothing ==
    [][\A w \in Passes :
          /\ record_and_schedule_next(w)
          /\ ~ \E row \in email_sequence : row.id = current(w).id
          => email_sequence' = email_sequence]_vars

-----------------------------------------------------------------------------
(* Properties of the rate limiter *)

\* the recorded sends that are not older than 60 seconds
sends_not_older_than_minute ==
    {i \in DOMAIN rate_limiter.minute_window :
        ~ (rate_limiter.minute_window[i] < now - MinuteSeconds)}

\* the daily count after the lazy reset of an access at time now
count_after_lazy_reset ==
    IF now >= rate_limiter.daily_reset_time THEN 0 ELSE rate_limiter.daily_count

\* C8: with the daily quota not reached, can_send_email is false exactly
\* while the sends recorded in the last 60-second span number max_per_minute
\* or more, so it is true again exactly 60 seconds after the oldest of them.
C8_TrueAgainAfterExactlySixtySeconds ==
    [][call_can_send_email /\ count_after_lazy_reset < config.rate_limit_per_day =>
          (rl_call'.result <=>
              Cardinality(recorded_in_trailing_minute) < config.rate_limit_per_minute)]_vars

\* C9: can_send_email returns true if and only if, after the timestamps older
\* than 60 seconds are evicted and the lazy daily reset is applied, the minute
\* window holds fewer than max_per_minute entries and the daily count is below
\* max_per_day.
C9_CanSendIffBelowBothLimits ==
    [][call_can_send_email =>
          /\ rl_call'.result <=>
                 /\ Cardinality(sends_not_older_than_minute) < config.rate_limit_per_minute
                 /\ count_after_lazy_reset < config.rate_limit_per_day
          /\ Len(rate_limiter'.minute_window) = Cardinality(sends_not_older_than_minute)
          /\ rate_limiter'.daily_count = count_after_lazy_reset]_vars

\* can_send_email has refused a send because of the minute window alone
C9_RefusedByMinuteWindow ==
    /\ rl_call.op = "can_send_email"
    /\ ~ rl_call.result
    /\ rate_limiter.daily_count < config.rate_limit_per_day
    /\ Len(rate_limiter.minute_window) >= config.rate_limit_per_minute

\* C10: the daily counter is reset exactly once per crossing of the stored
\* boundary: an access (can_send_email, get_current_rate) at or after the
\* boundary sets the count to 0 and moves the boundary to the next midnight,
\* which is later than the access; an access before the boundary leaves count
\* and boundary alone, and recording a send only adds one to the count.
C10_DailyResetOncePerBoundary ==
    [][/\ call_can_send_email \/ call_get_current_rate =>
            IF now >= rate_limiter.daily_reset_time
            THEN /\ rate_limiter'.daily_count = 0
                 /\ rate_limiter'.daily_reset_time % DaySeconds = 0
                 /\ rate_limiter'.daily_reset_time > now
                 /\ rate_limiter'.daily_reset_time <= now + DaySeconds
            ELSE /\ rate_limiter'.daily_count = rate_limiter.daily_count
                 /\ rate_limiter'.daily_reset_time = rate_limiter.daily_reset_time
       /\ call_record_email_sent =>
            /\ rate_limiter'.daily_count = rate_limiter.daily_count + 1
            /\ rate_limiter'.daily_reset_time = rate_limiter.daily_reset_time]_vars

\* after a reset, a send was recorded and a later access kept it
C10_CountKeptAfterReset ==
    /\ rl_call.op \in {"can_send_email", "get_current_rate"}
    /\ rate_limiter.daily_reset_time > DaySeconds
    /\ rate_limiter.daily_count > 0

-----------------------------------------------------------------------------
(* Properties of the sequence of steps *)

\* the rows a step of the program adds to email_sequence
created_rows == email_sequence' \ email_sequence

\* the row the scheduler is to create after a successful send of a step
follow_up_row(row, sent) ==
    /\ row.recipient_id = sent.recipient_id
    /\ row.sent_at = NULL
    /\ \/ /\ sent.step = 1
          /\ row.step = 2
          /\ row.scheduled_at = now + config.follow_up_1_delay_days * DaySeconds
       \/ /\ sent.step = 2
          /\ config.follow_up_2_enabled
          /\ row.step = 3
          /\ row.scheduled_at = now + config.follow_up_2_delay_days * DaySeconds

\* C11: after a successful send the scheduler creates the next step by these
\* rules and no others: after step 1, step 2 at now + follow_up_1_delay_days;
\* after step 2, step 3 at now + follow_up_2_delay_days only if
\* follow_up_2_enabled; after step 3, nothing; the step is created unless the
\* recipient has it already.  With follow_up_2_enabled false there is never
\* a step 3.
C11_FollowUpRules ==
    [][/\ \A w \in Passes : record_and_schedule_next(w) =>
            /\ Cardinality(created_rows) <= 1
            /\ \A row \in created_rows : follow_up_row(row, current(w))
            /\ \/ current(w).step = 3
               \/ current(w).step = 2 /\ ~ config.follow_up_2_enabled
               \/ \E row \in email_sequence' :
                     /\ row.recipient_id = current(w).recipient_id
                     /\ row.step = current(w).step + 1
       /\ ~ config.follow_up_2_enabled =>
            \A row \in email_sequence' : row.step # 3]_vars

\* the third step of a sequence has been sent and marked, and its pass is over
C11_ThirdStepSent ==
    /\ \E row \in email_sequence : row.step = 3 /\ row.sent_at # NULL
    /\ \A w \in Passes : pass[w].pc = "idle"

\* the (step, scheduled_at) pairs of a recipient's rows
schedule_of(recipient_id) ==
    {<<row.step, row.scheduled_at>> :
        row \in {x \in email_sequence : x.recipient_id = recipient_id}}

\* the schedule of a complete sequence created at base_time with step 1
\* initial_delay seconds ahead
complete_schedule(base_time, initial_delay) ==
    {<<1, base_time + initial_delay>>,
     <<2, base_time + config.follow_up_1_delay_days * DaySeconds>>}
    \cup (IF config.follow_up_2_enabled
          THEN {<<3, base_time + config.follow_up_2_delay_days * DaySeconds>>}
          ELSE {})

\* C12: for a recipient with no prior steps, create_complete_sequence produces
\* exactly step 1 scheduled 30 seconds ahead, step 2 at creation time +
\* follow_up_1_delay_days, and step 3 at creation time + follow_up_2_delay_days
\* if and only if follow-up 2 is enabled; for a recipient that has steps it
\* creates nothing.
C12_CompleteSequence ==
    [][\A c \in Callers :
          /\ sequence_update_status(c) =>
                schedule_of(admin[c].recipient_id)
                    = complete_schedule(admin[c].base_time, InitialDelaySeconds)
          /\ get_recipient_sequences(c) /\ admin'[c].returned = "False" =>
                email_sequence' = email_sequence]_vars

-----------------------------------------------------------------------------
(* Properties of add_recipient_to_sequence *)

has_unsent_step_1(table, recipient_id) ==
    \E row \in table : /\ row.recipient_id = recipient_id
                       /\ row.step = 1
                       /\ row.sent_at = NULL

has_step_1(table, recipient_id) ==
    \E row \in table : row.recipient_id = recipient_id /\ row.step = 1

address_taken(c) ==
    \/ \E email \in AddedEmails :
          add_recipient_to_sequence(c, email) /\ get_by_email(recipients, email) # {}
    \/ create_recipient(c) /\ get_by_email(recipients, admin[c].email) # {}

\* C14: recipient addresses stay unique under every interleaving of
\* add_recipient_to_sequence calls: a call with an address that exists returns
\* False, creates neither a recipient nor a step, and leaves the recipients
\* and the sequences as they are.
C14_EmailsStayUnique ==
    [][/\ \A i, j \in DOMAIN recipients' :
            recipients'[i].email = recipients'[j].email => i = j
       /\ \A c \in Callers : address_taken(c) =>
            /\ admin'[c].returned = "False"
            /\ recipients' = recipients
            /\ email_sequence' = email_sequence]_vars

\* a caller is about to insert an address that another caller inserted after
\* the first one's look-up
C14_InsertAfterLookupRace ==
    \E c \in Callers : /\ admin[c].pc = "create_recipient"
                       /\ get_by_email(recipients, admin[c].email) # {}

-----------------------------------------------------------------------------
(* Properties of match_reply *)

\* the sent steps whose recorded message id the message replies to
thread_steps ==
    {row \in email_sequence : /\ reply_match.message.in_reply_to # NULL
                              /\ row.message_id = reply_match.message.in_reply_to}

\* the sender's address is the address of the recipient, whatever the case
sent_from(recipient_id) ==
    /\ reply_match.message.from # ""
    /\ lower(recipients[recipient_id].email) = lower(reply_match.message.from)

\* C15: match_reply returns a high-confidence match exactly when the message's
\* in-reply-to is the recorded message id of a step and the sender's address is
\* the address of the recipient owning that step, and the match names that
\* recipient; when the sender is somebody else the result is never a match of
\* the step's owner: it is none, or a medium or low match of the recipient
\* stored under the sender's own address.
C15_HighIffThreadAndSender ==
    reply_match.called =>
        /\ reply_match.result.confidence = "high"
               <=> \E row \in thread_steps : sent_from(row.recipient_id)
        /\ reply_match.result.confidence = "high"
               => \E row \in thread_steps :
                      /\ sent_from(row.recipient_id)
                      /\ reply_match.result.recipient_id = row.recipient_id
        /\ \A row \in thread_steps :
               ~sent_from(row.recipient_id) =>
                   \/ reply_match.result = NoMatch
                   \/ /\ reply_match.result.confidence \in {"medium", "low"}
                      /\ reply_match.result.recipient_id # row.recipient_id
                      /\ recipients[reply_match.result.recipient_id].email
                             = lower(reply_match.message.from)

\* a reply to a recorded message id from the owner's address in another case
C15_HighFromOwner ==
    /\ reply_match.called
    /\ reply_match.result.confidence = "high"
    /\ \E row \in thread_steps :
           /\ reply_match.result.recipient_id = row.recipient_id
           /\ recipients[row.recipient_id].email # reply_match.message.from

\* a reply to a recorded message id from another recipient's address is
\* matched to that other recipient by its subject
C15_OtherSenderFallsThrough ==
    /\ reply_match.called
    /\ reply_match.result.confidence = "medium"
    /\ \E row \in thread_steps : ~sent_from(row.recipient_id)

\* the message carries an auto-reply indicator in its subject or body preview
recognised_as_auto_reply ==
    is_auto_reply(reply_match.message.subject, reply_match.message.body_preview)

\* C16: a message recognised as an auto-reply never yields a match from
\* match_reply, whatever its sender, its subject prefix or its in-reply-to.
C16_AutoReplyNeverMatches ==
    reply_match.called /\ recognised_as_auto_reply => reply_match.result = NoMatch

\* what each strategy yields for the message, in the order thread id,
\* subject pattern, sender identity
strategy_results ==
    LET message == reply_match.message
        from_address == extract_email_address(message.from)
    IN  <<match_by_message_id(recipients, email_sequence, message.in_reply_to,
                              from_address),
          match_by_subject(recipients, message.subject, from_address),
          match_by_sender(recipients, now, from_address, message.subject,
                          message.received_time, message.body_preview)>>

\* the strategies that succeed for a message with a sender
hits ==
    IF reply_match.message.from = "" THEN {}
    ELSE {i \in 1 .. 3 : strategy_results[i] # NoMatch}

\* C17: the result of match_reply is the result of the first strategy that
\* succeeds, in the order thread id, subject pattern, sender identity, with
\* confidence high, medium, low in that order; a subject or sender match names
\* a recipient stored under the sender's address in status active or pending;
\* no match is returned if and only if no strategy succeeds.
C17_FirstHitWins ==
    reply_match.called =>
        /\ reply_match.result = NoMatch <=> hits = {}
        /\ \A i \in hits :
               (\A j \in hits : i <= j) =>
                   /\ reply_match.result = strategy_results[i]
                   /\ reply_match.result.confidence = <<"high", "medium", "low">>[i]
        /\ reply_match.result.confidence \in {"medium", "low"} =>
               LET recipient == recipients[reply_match.result.recipient_id]
               IN  /\ recipient.email = lower(reply_match.message.from)
                   /\ recipient.status \in {"active", "pending"}

\* a message for which the subject and the sender strategies both succeed
C17_SubjectBeforeSender ==
    /\ reply_match.called
    /\ hits = {2, 3}
    /\ reply_match.result.confidence = "medium"

-----------------------------------------------------------------------------
(* Properties of the adaptive limiter *)

\* q is p less exactly one tenth of p, both in lowest terms
tenth_less(p, q) == q = fraction(9 * p.num, 10 * p.den)

\* q is exactly twice p, both in lowest terms
twice(p, q) == q = fraction(2 * p.num, p.den)

\* p is below the floor of 0.5 seconds
below_floor(p) == 2 * p.num < p.den

\* p is above the ceiling of 30 seconds
above_ceiling(p) == p.num > 30 * p.den

\* C18: the fifth success in a row reduces current_delay by exactly 10 percent,
\* or to min_delay when the reduced value would be below it, and resets the
\* success streak to 0; each of the first four successes of a streak leaves
\* current_delay unchanged and lengthens the streak by one; any failure resets
\* the success streak.
C18_FifthSuccessDecays ==
    [][/\ call_record_send_result(TRUE, "") =>
            IF rate_limiter.consecutive_successes = 4
            THEN /\ rate_limiter'.consecutive_successes = 0
                 /\ \/ /\ tenth_less(rate_limiter.current_delay,
                                     rate_limiter'.current_delay)
                       /\ ~below_floor(rate_limiter'.current_delay)
                    \/ /\ rate_limiter'.current_delay = [num |-> 1, den |-> 2]
                       /\ 9 * rate_limiter.current_delay.num * 2
                              < 10 * rate_limiter.current_delay.den
            ELSE /\ rate_limiter'.consecutive_successes
                        = rate_limiter.consecutive_successes + 1
                 /\ rate_limiter'.consecutive_successes < 5
                 /\ rate_limiter'.current_delay = rate_limiter.current_delay
       /\ \A error_code \in ErrorCodes :
              call_record_send_result(FALSE, error_code) =>
                  rate_limiter'.consecutive_successes = 0]_vars

\* the fifth success in a row has been recorded near the floor: current_delay
\* is min_delay and the streak is 0 again
C18_DecayReachedFloor ==
    /\ rl_call.op = "record_send_result"
    /\ rl_call.result
    /\ rate_limiter.consecutive_successes = 0
    /\ Len(rate_limiter.minute_window) = 5
    /\ rate_limiter.current_delay = [num |-> 1, den |-> 2]

\* C19 as stated: one failure whose error signals throttling multiplies
\* current_delay by 2.0, whatever the streaks.
C19_ThrottlingDoubles ==
    [][\A error_code \in {"throttled", "Throttling"} :
           call_record_send_result(FALSE, error_code) =>
               twice(rate_limiter.current_delay, rate_limiter'.current_delay)]_vars

\* C19 amended: one failure whose error signals throttling multiplies
\* current_delay by 2.0, or sets it to max_delay (30 seconds) when the doubled
\* value would be above it, whatever the streaks.
C19_ThrottlingDoublesUpToMaxDelay ==
    [][\A error_code \in {"throttled", "Throttling"} :
           call_record_send_result(FALSE, error_code) =>
               \/ /\ twice(rate_limiter.current_delay, rate_limiter'.current_delay)
                  /\ ~above_ceiling(rate_limiter'.current_delay)
               \/ /\ rate_limiter'.current_delay = [num |-> 30, den |-> 1]
                  /\ 2 * rate_limiter.current_delay.num
                         > 30 * rate_limiter.current_delay.den]_vars

\* a throttling failure after a streak of successes has doubled current_delay
C19_DoubledAfterSuccesses ==
    /\ rl_call.op = "record_send_result"
    /\ ~rl_call.result
    /\ signals_throttling(rl_call.error_code)
    /\ Len(rate_limiter.minute_window) = 5
    /\ rate_limiter.consecutive_failures = 1
    /\ rate_limiter.current_delay = [num |-> 2, den |-> 1]

\* C31: current_delay stays between min_delay (0.5) and max_delay (30.0) after
\* any sequence of successes, throttling failures and other failures.
C31_DelayWithinBounds ==
    /\ ~below_floor(rate_limiter.current_delay)
    /\ ~above_ceiling(rate_limiter.current_delay)

\* a failure recorded as the second result or later has left current_delay
\* at the ceiling, which a further factor would have passed
C31_BothBoundsMet ==
    /\ rl_call.op = "record_send_result"
    /\ ~rl_call.result
    /\ rate_limiter.current_delay = max_delay
    /\ Len(rate_limiter.minute_window) >= 2

\* q is exactly one and a half times p, both in lowest terms
half_more(p, q) == q = fraction(3 * p.num, 2 * p.den)

\* C32 as stated: a failure that does not signal throttling multiplies
\* current_delay by 1.5 when it is the third failure in a row or a later one,
\* and leaves it unchanged when it is the first or the second; a success
\* resets the failure count.
C32_ThirdFailureMultiplies ==
    [][/\ \A error_code \in {"", "timeout"} :
              call_record_send_result(FALSE, error_code) =>
                  IF rate_limiter.consecutive_failures + 1 >= 3
                  THEN half_more(rate_limiter.current_delay, rate_limiter'.current_delay)
                  ELSE rate_limiter'.current_delay = rate_limiter.current_delay
       /\ call_record_send_result(TRUE, "") =>
              rate_limiter'.consecutive_failures = 0]_vars

\* C32 amended: the third failure in a row and every later one, when it does
\* not signal throttling, multiplies current_delay by 1.5, or sets it to
\* max_delay (30 seconds) when the product would be above it; the first and
\* the second leave it unchanged; every failure lengthens the failure streak
\* by one and a success resets it.
C32_ThirdFailureMultipliesUpToMaxDelay ==
    [][/\ \A error_code \in {"", "timeout"} :
              call_record_send_result(FALSE, error_code) =>
                  /\ rate_limiter'.consecutive_failures
                         = rate_limiter.consecutive_failures + 1
                  /\ IF rate_limiter.consecutive_failures + 1 >= 3
                     THEN \/ /\ half_more(rate_limiter.current_delay,
                                          rate_limiter'.current_delay)
                             /\ ~above_ceiling(rate_limiter'.current_delay)
                          \/ /\ rate_limiter'.current_delay = [num |-> 30, den |-> 1]
                             /\ 3 * rate_limiter.current_delay.num
                                    > 2 * 30 * rate_limiter.current_delay.den
                     ELSE rate_limiter'.current_delay = rate_limiter.current_delay
       /\ call_record_send_result(TRUE, "") =>
              rate_limiter'.consecutive_failures = 0]_vars

\* the fourth failure in a row, none of them throttling, has multiplied
\* current_delay a second time
C32_FourthFailureMultipliedAgain ==
    /\ rl_call.op = "record_send_result"
    /\ ~rl_call.result
    /\ ~signals_throttling(rl_call.error_code)
    /\ rate_limiter.consecutive_failures = 4
    /\ Len(rate_limiter.minute_window) = 4
    /\ rate_limiter.current_delay = [num |-> 9, den |-> 4]

\* the sends the limiter counts at the next instant of the clock's reading:
\* those recorded within the last 60 seconds, and the daily count unless the
\* boundary has passed
limits_allow_after_step ==
    /\ Cardinality({i \in DOMAIN rate_limiter'.minute_window :
                       rate_limiter'.minute_window[i] >= now - MinuteSeconds})
           < config.rate_limit_per_minute
    /\ (IF now >= rate_limiter'.daily_reset_time THEN 0
        ELSE rate_limiter'.daily_count) < config.rate_limit_per_day

\* C20: exponential_backoff_retry invokes the send function only at a moment
\* when neither the minute window nor the daily quota is used up.
C20_SendOnlyWithinLimits ==
    [][wait_for_rate_limit /\ retry'.pc = "send_function" =>
           limits_allow_after_step]_vars

\* the call of exponential_backoff_retry is over
retry_over == retry.pc \in {"returned", "raised"}

\* C21: exponential_backoff_retry invokes the send function at most
\* max_retries + 1 times; when an invocation succeeds it returns and invokes
\* no more; a failed invocation is followed by another attempt unless it was
\* invocation max_retries + 1, after which the exception of that last attempt
\* is raised; and the call, once begun, is over while the clock still runs.
C21_RetryTerminates ==
    /\ [](retry.invocations <= backoff_max_retries + 1)
    /\ [][retry_over => retry' = retry]_vars
    /\ [][send_function_returns => retry'.pc = "returned"]_vars
    /\ [][\A error_code \in ErrorCodes :
              send_function_raises(error_code) =>
                  IF retry.invocations = backoff_max_retries + 1
                  THEN /\ retry'.pc = "raised"
                       /\ retry'.last_exception = error_code
                  ELSE retry'.pc = "backoff_sleep"]_vars
    /\ (retry.pc # "idle") ~> (retry_over \/ now = last_instant)

\* every attempt failed, and the last exception is raised while time remains
C21_RaisedAfterLastAttempt ==
    /\ retry.pc = "raised"
    /\ retry.invocations = backoff_max_retries + 1
    /\ retry.last_exception = "throttled"
    /\ now < last_instant

-----------------------------------------------------------------------------
(* Properties of the limiter's state file *)

\* the entries of the limiter's window that are not older than 60 seconds
unexpired_in_memory ==
    {i \in DOMAIN rate_limiter.minute_window :
        rate_limiter.minute_window[i] >= now - MinuteSeconds}

\* C22: after a restart at any point within the day, the restored daily count
\* is not greater than the count the limiter held before the restart and
\* smaller by at most one, and the restored minute window holds the unexpired
\* entries the limiter held, the last one excepted when its write had not
\* finished.
C22_RestartKeepsQuota ==
    [][restart /\ now < rate_limiter.daily_reset_time =>
          /\ rate_limiter'.daily_count <= rate_limiter.daily_count
          /\ rate_limiter'.daily_count >= rate_limiter.daily_count - 1
          /\ Len(rate_limiter'.minute_window) <= Cardinality(unexpired_in_memory)
          /\ Len(rate_limiter'.minute_window)
                 >= Cardinality(unexpired_in_memory) - 1]_vars

-----------------------------------------------------------------------------
(* Properties of the start-up *)

\* C23: the scheduler is never started with a rate cap or a follow-up delay
\* that is not positive.
C23_NeverStartedWithInvalidConfig ==
    app.pc = "running" =>
        /\ config.rate_limit_per_minute > 0
        /\ config.rate_limit_per_day > 0
        /\ config.follow_up_1_delay_days > 0
        /\ config.follow_up_2_delay_days > 0

-----------------------------------------------------------------------------
(* Properties of the polling loop *)

\* the step is due, not sent, and its recipient is active
awaits_sending(id) ==
    \E row \in email_sequence :
        /\ row.id = id
        /\ row.sent_at = NULL
        /\ row.scheduled_at <= now
        /\ recipients[row.recipient_id].status = "active"

\* the step has been sent, or was cancelled, or its recipient is not active
sent_or_released(id) ==
    \A row \in email_sequence :
        row.id = id =>
            \/ row.sent_at # NULL
            \/ recipients[row.recipient_id].status # "active"

-----------------------------------------------------------------------------
(* Properties of pause and resume *)

\* only the status of recipient r differs between the two tables
only_status_of(r, before, after) ==
    /\ DOMAIN after = DOMAIN before
    /\ \A q \in DOMAIN before :
          after[q] = IF q = r
                     THEN [before[q] EXCEPT !.status = after[q].status]
                     ELSE before[q]

\* C25: pause and resume change only the recipient's status; while the status
\* is stopped no step of the recipient is sent; a step that came due during
\* the pause is sent after the resume with its original scheduled_at.
C25_NothingSentWhileStopped ==
    [][\A w \in Passes : sender_invoked(w) =>
          recipients[current(w).recipient_id].status # "stopped"]_vars

\* C25, as the code has it: pause and resume write the status and nothing
\* else, the pass sends no step whose recipient it has just read as stopped,
\* and no step changes its scheduled_at, so that a step skipped during the
\* pause is sent after the resume as it was scheduled.
C25_PauseResumeWriteStatusOnly ==
    [][/\ \A r \in 1 .. MaxRecipients :
             pause_recipient_sequence(r) \/ resume_recipient_sequence(r) =>
                 /\ email_sequence' = email_sequence
                 /\ seq_next_id' = seq_next_id
                 /\ only_status_of(r, recipients, recipients')
                 /\ recipients'[r].status \in {"stopped", "active"}
       /\ \A w \in Passes : sender_invoked(w) => pass[w].status # "stopped"
       /\ \/ email_sequence' = email_sequence
          \/ \A row \in email_sequence : \A new \in email_sequence' :
                new.id = row.id => new.scheduled_at = row.scheduled_at]_vars

\* a step that a pass skipped because its recipient was stopped has been sent
\* after the resume, later than it was scheduled
C25_SentAfterResume ==
    \E row \in email_sequence :
        /\ skipped = [id |-> row.id, sent |-> TRUE]
        /\ row.sent_at # NULL
        /\ row.scheduled_at < row.sent_at
        /\ recipients[row.recipient_id].status = "active"

-----------------------------------------------------------------------------
(* Properties of a step that is not sent *)

\* the rows of the steps a pass still has before it
rows_of(steps) ==
    {row \in email_sequence : \E i \in DOMAIN steps : steps[i].id = row.id}

\* the rows are in the table afterwards as they were, and those that were
\* due are due
left_due(rows) ==
    \A row \in rows :
        /\ row \in email_sequence'
        /\ row \in due_rows(email_sequence, now) => row \in due_rows(email_sequence', now')

\* the limiter denied the steps the pass had before it: the for loop ran to
\* its end without a further await
denied(w, rest) == rest # <<>> /\ pass'[w].pc = "idle"

\* C26: a due step that is skipped because the limiter denies, or because its
\* recipient is replied or stopped, or whose send fails, keeps its row as it
\* was (unsent, no message id, same scheduled_at, not deleted), gets no
\* follow-up, and is due again at the next poll.
C26_SkippedStepStaysDue ==
    [][\A w \in Passes :
          /\ skip_email(w) \/ send_email_failure(w) =>
                /\ email_sequence' = email_sequence
                /\ seq_next_id' = seq_next_id
                /\ left_due(rows_of(pass[w].due))
          /\ process_due_emails(w) /\ denied(w, get_due_emails(email_sequence, now)) =>
                /\ email_sequence' = email_sequence
                /\ seq_next_id' = seq_next_id
                /\ left_due(due_rows(email_sequence, now))]_vars

\* a step that was skipped for a stopped recipient, and whose send failed
\* after the resume, is unsent and due
C26_DueAfterSkipAndFailure ==
    \E row \in due_rows(email_sequence, now) :
        /\ skipped = [id |-> row.id, sent |-> FALSE]
        /\ rate_limiter.consecutive_failures = 1
        /\ delivered = {}
        /\ row.message_id = NULL
        /\ pass[1].pc = "idle"

-----------------------------------------------------------------------------
(* Properties of the recipient's status *)

\* the changes of status the life cycle has
status_changes ==
    {<<"pending", "active">>, <<"active", "stopped">>, <<"stopped", "active">>,
     <<"pending", "replied">>, <<"active", "replied">>}

\* C27: every change of a recipient's status is pending to active, active to
\* stopped, stopped to active, pending to replied or active to replied; none
\* leads back to pending, and resume changes the status of a stopped
\* recipient only.
C27_OnlyLifeCycleChanges ==
    [][\A r \in DOMAIN recipients :
          recipients'[r].status # recipients[r].status =>
              <<recipients[r].status, recipients'[r].status>> \in status_changes]_vars

\* no operation writes pending over another status
C27_NeverBackToPending ==
    [][\A r \in DOMAIN recipients :
          recipients[r].status # "pending" => recipients'[r].status # "pending"]_vars

-----------------------------------------------------------------------------
(* Properties of the rows of email_sequence *)

\* the row is in the table afterwards with the same sent_at, message id,
\* scheduled_at and step number
kept_as_sent(row) ==
    \E new \in email_sequence' :
        /\ new.id = row.id
        /\ new.recipient_id = row.recipient_id
        /\ new.step = row.step
        /\ new.scheduled_at = row.scheduled_at
        /\ new.sent_at = row.sent_at
        /\ new.message_id = row.message_id

\* C28: once sent_at of a step is set, no later operation changes its
\* sent_at, message id, scheduled_at or step number, or deletes it; only
\* its replied flag may change.
C28_SentStepIsFrozen ==
    [][\A row \in email_sequence : row.sent_at # NULL => kept_as_sent(row)]_vars

\* no operation deletes a step that has been sent
C28_SentStepIsNeverDeleted ==
    [][\A row \in email_sequence : row.sent_at # NULL =>
          \E new \in email_sequence' : new.id = row.id]_vars

\* C29: there is at most one step per (recipient, step number), and a step
\* that has a message id has sent_at set, also when create_complete_sequence
\* and the scheduler's follow-up creation work on the same recipient.
C29_OneStepPerNumber ==
    /\ \A a \in email_sequence : \A b \in email_sequence :
          a.recipient_id = b.recipient_id /\ a.step = b.step => a = b
    /\ \A row \in email_sequence : row.message_id # NULL => row.sent_at # NULL

\* step 1 has been sent and its follow-up was due for creation when step 2
\* of create_complete_sequence was in the table already
C29_FollowUpMetCompleteSequence ==
    \E first \in email_sequence : \E second \in email_sequence :
        /\ first.recipient_id = second.recipient_id
        /\ first.step = 1 /\ second.step = 2
        /\ first.sent_at # NULL /\ first.message_id # NULL
        /\ second.scheduled_at < first.sent_at + config.follow_up_1_delay_days * DaySeconds
        /\ pass[1].pc = "idle"

-----------------------------------------------------------------------------
(* Properties of the adaptive delay in the scheduler *)

\* the seconds since the limiter recorded its last result cover the delay
delay_waited ==
    LET last == rate_limiter.minute_window[Len(rate_limiter.minute_window)]
    IN  (now - last) * rate_limiter.current_delay.den >= rate_limiter.current_delay.num

\* C30: the pass waits current_delay before every send attempt: after a
\* failed send, which the limiter records at the moment of the attempt, the
\* next attempt comes no sooner than current_delay later.
C30_SendsArePaced ==
    [][\A w \in Passes :
          /\ sender_invoked(w)
          /\ rate_limiter.consecutive_failures >= 1
          /\ rate_limiter.minute_window # <<>>
          => delay_waited]_vars

-----------------------------------------------------------------------------
(* Properties of the order of sending *)

\* the row of the table with the id
row_of(id) == CHOOSE row \in email_sequence : row.id = id

\* the steps a pass has before it are in non-decreasing scheduled_at order,
\* each once
oldest_first(steps) ==
    \A i \in DOMAIN steps : \A j \in DOMAIN steps :
        i < j => /\ steps[i].id # steps[j].id
                 /\ row_of(steps[i].id).scheduled_at <= row_of(steps[j].id).scheduled_at

\* C33: a pass takes exactly the steps with scheduled_at <= now, sent_at
\* unset and not flagged replied, and works through them in non-decreasing
\* scheduled_at order, each at most once: what it has before it is always
\* the rest of that list, and the step it sends is the first of the rest.
C33_OldestDueFirst ==
    [][\A w \in Passes :
          /\ process_due_emails(w) /\ pass'[w].pc # "idle" =>
                /\ {pass'[w].due[i].id : i \in DOMAIN pass'[w].due}
                       = {row.id : row \in {r \in email_sequence :
                                               /\ r.scheduled_at <= now
                                               /\ r.sent_at = NULL
                                               /\ ~r.replied}}
                /\ oldest_first(pass'[w].due)
          /\ pass[w].pc # "idle" /\ pass'[w] # pass[w] =>
                \/ pass'[w].due = pass[w].due
                \/ pass'[w].due = Tail(pass[w].due)
                \/ pass'[w].due = <<>>
          /\ send_email_success(w) =>
                delivered' = delivered \cup
                    {<<Head(pass[w].due).recipient_id, Head(pass[w].due).step>>}]_vars

\* a pass has sent the older of two due steps and has the younger before it,
\* the younger being the one created first
C33_YoungerRowWaits ==
    \E old \in email_sequence : \E young \in email_sequence :
        /\ old.sent_at # NULL
        /\ young.sent_at = NULL
        /\ old.scheduled_at < young.scheduled_at
        /\ young.id < old.id
        /\ young.scheduled_at <= old.sent_at
        /\ pass[1].pc = "get_recipient"
        /\ Head(pass[1].due).id = young.id

\* C36: for every recipient the steps are sent in increasing step-number
\* order: no step is sent while a step of the same recipient with a smaller
\* number is unsent, for every pair of follow-up delays.
C36_StepsSentInNumberOrder ==
    [][\A w \in Passes : send_email_success(w) =>
          ~ \E row \in email_sequence :
                /\ row.recipient_id = current(w).recipient_id
                /\ row.step < current(w).step
                /\ row.sent_at = NULL]_vars

-----------------------------------------------------------------------------
(* Properties of the lookback window of match_reply *)

\* C34: a low-confidence match is returned only for a message whose received
\* time is known and lies within the 30 days before now.
C34_LowOnlyWithinLookback ==
    reply_match.called /\ reply_match.result.confidence = "low" =>
        /\ reply_match.message.received_time # NULL
        /\ reply_match.message.received_time >= now - RecencyDays * DaySeconds

\* a low-confidence match is never returned for a message received more
\* than 30 days before now
C34_NoLowMatchForOldMessage ==
    reply_match.called /\ reply_match.result.confidence = "low" =>
        \/ reply_match.message.received_time = NULL
        \/ reply_match.message.received_time >= now - RecencyDays * DaySeconds

-----------------------------------------------------------------------------
(* Properties of the reply loop against the matcher *)

\* what match_reply returns for the message the tracker has processed
match_of_processed ==
    match_reply(recipients, email_sequence, now, reply_match.message)

\* C35: the reply loop cancels a recipient's sequence for a message only if
\* match_reply returns a match naming that recipient for that message.
C35_TrackerRefinesMatcher ==
    [][handle_reply => match_of_processed.recipient_id = reply.recipient_id]_vars

-----------------------------------------------------------------------------
(* Properties of the quota a send attempt consumes *)

\* the step of the pass that records the outcome of an attempt: the failed
\* send, or the record after mark_sent of a successful one
records_attempt ==
    /\ pass'[1] # pass[1]
    /\ \/ pass[1].pc = "record_send_result"
       \/ /\ pass[1].pc = "send_email"
          /\ ~ skips_status(pass[1].status)
          /\ pass'[1].pc # "mark_sent"

\* window is what is left of longer after entries were evicted at its front
left_of(window, longer) ==
    /\ Len(window) <= Len(longer)
    /\ window = SubSeq(longer, Len(longer) - Len(window) + 1, Len(longer))

\* the lazy daily reset is due at the clock's reading
reset_is_due == now >= rate_limiter.daily_reset_time

\* the step adds the clock's reading, once, to the window and to the count
counted_once ==
    /\ rate_limiter'.minute_window # <<>>
    /\ left_of(rate_limiter'.minute_window,
               Append(rate_limiter.minute_window, now))
    /\ rate_limiter'.daily_count \in
           {rate_limiter.daily_count + 1} \cup (IF reset_is_due THEN {0} ELSE {})

\* the step adds nothing to the window or to the count
counted_none ==
    /\ left_of(rate_limiter'.minute_window, rate_limiter.minute_window)
    /\ rate_limiter'.daily_count \in
           {rate_limiter.daily_count} \cup (IF reset_is_due THEN {0} ELSE {})

\* C37: a step that records an attempt, successful or failed, adds one
\* timestamp to the minute window and one to the daily count; every other
\* step, a skip by the gate or by the status check among them, adds none.
C37_EveryAttemptConsumesQuota ==
    [][IF records_attempt THEN counted_once ELSE counted_none]_vars

\* a failed attempt has been counted: one timestamp in the window, a daily
\* count of one, and no email delivered
C37_FailureCounted ==
    /\ rate_limiter.daily_count = 1
    /\ Len(rate_limiter.minute_window) = 1
    /\ rate_limiter.consecutive_failures = 1
    /\ delivered = {}

====
